---- MODULE Spec2Model ----
(***************************************************************************)
(* Model of the cache lifecycle controller of the Calendar Calculator PWA  *)
(* (src/sw.js): install, activate, fetch routing, background refresh and   *)
(* the on-demand update check, together with the platform objects the      *)
(* script drives (CacheStorage, the network, the connected clients).       *)
(*                                                                         *)
(* URLs and cache names are strings; startsWith, endsWith and includes     *)
(* are computed on their characters.                                       *)
(*                                                                         *)
(* Environment faults follow the error taxonomy of the controller: a       *)
(* network fetch may reject, time out or answer with a non-ok status,      *)
(* opening the cache at install may fail, and deleting an old cache at     *)
(* activation may fail.                                                    *)
(***************************************************************************)
EXTENDS Integers, Sequences, FiniteSets, TLC

(***************************************************************************)
(* Bounds of the model                                                     *)
(***************************************************************************)
\* how many of the seven './i18n/<lang>.json' manifest entries are kept
NumLangFiles == 1
\* how many times the install event is delivered at most
MaxInstallEvents == 2
\* superseded cache versions that may exist when the worker starts
NumOldVersions == 2
\* client ids (tabs) that may be connected
NumClients == 2
\* how often the deployed (live) content changes at most
MaxDeploys == 1
\* clock ticks (of 15 s each) the model lets pass
MaxTicks == 3
\* fetch events that are being handled at the same time
MaxRequests == 1
\* how many CHECK_UPDATES runs are started at most
MaxChecks == 1

(***************************************************************************)
(* String.prototype.startsWith, endsWith, includes                         *)
(***************************************************************************)
StartsWith(s, p) == Len(s) >= Len(p) /\ SubSeq(s, 1, Len(p)) = p
EndsWith(s, p) == Len(s) >= Len(p) /\ SubSeq(s, Len(s) - Len(p) + 1, Len(s)) = p
Includes(s, p) == \E i \in 1..(Len(s) - Len(p) + 1) : SubSeq(s, i, i + Len(p) - 1) = p

(***************************************************************************)
(* Program constants, src/sw.js:2-19                                       *)
(***************************************************************************)
CACHE_BASE_NAME == "calendar-calculator"
\* 'v1.72-' + new Date().getTime(): the start time of this worker
CACHE_VERSION == "v1.72-" \o "1700000000009"
CACHE_NAME == CACHE_BASE_NAME \o "-" \o CACHE_VERSION

URLS_TO_CACHE ==
    << "./",
       "./index.html",
       "./i18n.js",
       "./manifest.json",
       "./sw.js",
       "./i18n/cs.json",
       "./i18n/en.json",
       "./i18n/de.json",
       "./i18n/fr.json",
       "./i18n/es.json",
       "./i18n/ru.json",
       "./i18n/uk.json" >>

\* the manifest the model installs: the five application files and the
\* first NumLangFiles language files (the code treats all of them alike)
Manifest == SubSeq(URLS_TO_CACHE, 1, 5 + NumLangFiles)
ManifestIdx == 1..Len(Manifest)

(***************************************************************************)
(* URLs: self.location is Origin/app/sw.js, so relative identifiers are    *)
(* resolved against Origin/app/ as fetch() and the Cache API do.           *)
(***************************************************************************)
Origin == "https://calc.example"
ScopeUrl == Origin \o "/app/"
Resolve(rel) ==
    IF StartsWith(rel, "./")
    THEN ScopeUrl \o SubSeq(rel, 3, Len(rel))
    ELSE Origin \o rel

\* identifiers that are requested but are not in the manifest
StyleUrl == Resolve("./style.css")
AboutUrl == Resolve("./about")
RootUrl == Resolve("/")
ForeignUrl == "https://cdn.example/lib.js"
\* a URL of another origin whose text begins with the text of Origin
LookalikeUrl == Origin \o ".cdn.example/lib.js"

ManifestKeys == {Resolve(Manifest[i]) : i \in ManifestIdx}
Keys == ManifestKeys \cup {StyleUrl, AboutUrl, RootUrl, LookalikeUrl}

(***************************************************************************)
(* CacheStorage: a cache is a function from key to stored content, Absent  *)
(* where there is no entry; a name without a cache maps to NoCache (a      *)
(* function too, so that TLC can compare it with a cache).                 *)
(***************************************************************************)
Absent == 0
NoCache == [k \in Keys |-> -1]
Contents == 1..(1 + MaxDeploys)
EmptyCache == [k \in Keys |-> Absent]

OldNames == {CACHE_BASE_NAME \o "-v1.71-169000000000" \o ToString(i) : i \in 1..NumOldVersions}
\* a cache of the same origin that merely shares the prefix, and one that does not
SiblingName == CACHE_BASE_NAME \o "-data"
ForeignName == "other-app-v1"
AllNames == {CACHE_NAME, SiblingName, ForeignName} \cup OldNames

CachesOpen(st, name) ==
    IF st[name] = NoCache THEN [st EXCEPT ![name] = EmptyCache] ELSE st
CachesKeys(st) == {n \in DOMAIN st : st[n] # NoCache}
CachesDelete(st, name) == [st EXCEPT ![name] = NoCache]
CachePut(st, name, key, content) == [st EXCEPT ![name][key] = content]
CacheMatch(st, name, key) == IF key \in Keys THEN st[name][key] ELSE Absent
Stored(st, name) ==
    IF st[name] = NoCache THEN {} ELSE {k \in Keys : st[name][k] # Absent}

(***************************************************************************)
(* Requests and responses                                                  *)
(***************************************************************************)
Request(url, method, destination, mode, accept) ==
    [url |-> url, method |-> method, destination |-> destination,
     mode |-> mode, accept |-> accept]
NoRequest == Request("", "", "", "", "")

\* src/sw.js:187-194
isHTMLRequest(request) ==
    \/ request.destination = "document"
    \/ request.mode = "navigate"
    \/ EndsWith(request.url, "/")
    \/ Includes(request.url, "index.html")
    \/ (request.accept # "" /\ Includes(request.accept, "text/html"))

\* a response: where it comes from (kind), its status and content type, and
\* its body: the number of a content version, or 0 for a body that is no
\* content of an identifier
Response(kind, status, ctype, body) ==
    [kind |-> kind, status |-> status, ctype |-> ctype, body |-> body]
NoResponse == Response("none", 0, "", 0)
\* the event was left to the browser (no respondWith)
NotIntercepted == Response("passthrough", 0, "", 0)
\* the promise given to respondWith was rejected
Rejected == Response("rejected", 0, "", 0)
CachedResponse(c) == Response("cached", 200, "as stored", c)
NetworkResponse(c) == Response("network", 200, "as served", c)
NotOkResponse == Response("network", 404, "as served", 0)

\* an offline page served with an error status
createOfflineResponse503 ==
    Response("offline", 503, "text/html; charset=utf-8", 0)
\* src/sw.js:279-322
createOfflineResponse ==
    Response("offline", 200, "text/html; charset=utf-8", 0)
\* src/sw.js:325-330
createErrorResponse ==
    Response("error", 500, "text/plain", 0)

\* the fallback list with the index document before the root path
alternativesIndexFirst == <<"./index.html", "./", "/">>
\* src/sw.js:176
alternatives == <<"./", "./index.html", "/">>
\* src/sw.js:401
urlsToCheck == <<"./", "./index.html", "./i18n.js">>

\* the fetch events the model delivers
HtmlAccept == "text/html,application/xhtml+xml,*/*"
AnyAccept == "*/*"
ReqNavRoot == Request(Resolve("./"), "GET", "document", "navigate", HtmlAccept)
ReqIndex == Request(Resolve("./index.html"), "GET", "", "cors", AnyAccept)
ReqScript == Request(Resolve("./i18n.js"), "GET", "script", "no-cors", AnyAccept)
ReqStyle == Request(StyleUrl, "GET", "style", "no-cors", "")
ReqAbout == Request(AboutUrl, "GET", "document", "navigate", HtmlAccept)
ReqSw == Request(Resolve("./sw.js"), "GET", "", "cors", AnyAccept)
ReqPost == Request(Resolve("./"), "POST", "", "cors", AnyAccept)
ReqForeign == Request(ForeignUrl, "GET", "script", "no-cors", AnyAccept)
ReqLookalike == Request(LookalikeUrl, "GET", "", "cors", AnyAccept)
RouterRequests ==
    {ReqNavRoot, ReqScript, ReqStyle, ReqAbout, ReqSw, ReqPost, ReqForeign}

ClientIds == 1..NumClients
Slots == 1..MaxRequests
CheckIds == 1..MaxChecks
\* a background refresh starts at most every second tick
BgSlots == 1..((MaxTicks \div 2) + 1)

VARIABLES
    caches,           \* CacheStorage: cache name -> cache or NoCache
    live,             \* the deployed content of every identifier
    deploys,          \* how often the deployed content has changed
    now,              \* clock ticks passed since the worker started
    phase,            \* lifecycle of the worker
    isInstalled,      \* src/sw.js:21
    installPromise,   \* src/sw.js:22: "null", "pending" or "fulfilled"
    installPc,        \* where the install promise chain is
    installFetch,     \* per manifest entry: state of its fetch/put chain
    installEvents,    \* install events delivered so far
    fetchCount,       \* fetch() calls the install handler made, per entry
    installOutcome,   \* "none", "complete" (l.55-63) or "failed" (l.65-67)
    successful,       \* the count logged at l.56
    failed,           \* the count logged at l.57
    skipWaitingCalls, \* calls of self.skipWaiting()
    clientState,      \* per client id: "new", "open" or "closed"
    inbox,            \* per client id: the messages posted to it, in order
    activatePc,       \* where the activate promise chain is
    keysState,        \* caches.keys(): "none", "pending" or "resolved"
    deletes,          \* per cache name: state of its caches.delete call
    claimState,       \* self.clients.claim(): "none", "pending" or "done"
    reqs,             \* per slot: the fetch event being handled
    pendingPuts,      \* cache.put calls of tryNetwork that nobody awaits
    unhandledrejection, \* keys whose put was rejected with no handler (l.456)
    lastBackgroundUpdate, \* self.lastBackgroundUpdate, 0 while undefined
    bg,               \* per background slot: the refresh started
    bgCount,          \* background refreshes started so far
    bgStarts,         \* Date.now() at the last two refresh fetches
    checks,           \* per check id: the checkForUpdates run
    i18nData,         \* src/unnamed/part_000:3: own properties of the object
    i18nReady,        \* src/unnamed/part_000:4
    i18nDataCache,    \* window.i18nDataCache: per language, the raw file kept
    translated        \* the last call of i18n: arguments, state read, result

installVars == <<phase, isInstalled, installPromise, installPc, installFetch,
                 installEvents, fetchCount, installOutcome,
                 successful, failed, skipWaitingCalls>>
envVars == <<live, deploys, now>>
clientVars == <<clientState, inbox>>
activateVars == <<activatePc, keysState, deletes, claimState>>
routerVars ==
    <<reqs, pendingPuts, unhandledrejection, lastBackgroundUpdate, bg, bgCount, bgStarts>>
checkVars == <<checks>>
i18nVars == <<i18nData, i18nReady, i18nDataCache, translated>>
swVars == <<caches, envVars, installVars, clientVars, activateVars, routerVars, checkVars>>
vars == <<swVars, i18nVars>>

(***************************************************************************)
(* The translation module of the page, src/unnamed/part_000                *)
(***************************************************************************)
SUPPORTED_LANGUAGES == {"cs", "en", "de", "fr", "es", "ru", "uk"}
I18N_DEFAULT == "en"
\* the languages asked for: the default, another supported one, an unknown one
Langs == {"en", "cs", "xx"}
CachedLangs == Langs \cap SUPPORTED_LANGUAGES

\* JavaScript values: strings, undefined, the functions every object
\* inherits, and a thrown TypeError; NoProp marks a name an object does not own
Str(t) == [type |-> "string", text |-> t]
Undefined == [type |-> "undefined", text |-> ""]
BuiltIn(name) == [type |-> "function", text |-> name]
TypeError == [type |-> "TypeError", text |-> ""]
NoProp == [type |-> "none", text |-> ""]

\* the property names that occur, and those of Object.prototype among them
PropNames ==
    {"app_title", "days_count", "calculating", "calculation_error",
     "invalid_date", "_comment", "constructor", "moon_new"}
ObjectPrototypeNames == {"constructor"}
EmptyObject == [k \in PropNames |-> NoProp]

\* obj[key] of an object literal: the own property, else the inherited one
Get(obj, key) ==
    IF obj[key] # NoProp THEN obj[key]
    ELSE IF key \in ObjectPrototypeNames THEN BuiltIn(key)
    ELSE Undefined

\* ./i18n/{lang}.json as deployed
I18nFile(lang) ==
    IF lang = "en"
    THEN [EmptyObject EXCEPT !["_comment"] = Str("English"),
                             !["app_title"] = Str("Calendar Calculator"),
                             !["days_count"] = Str("{n} days of {n}"),
                             !["invalid_date"] = Str("Invalid date format")]
    ELSE [EmptyObject EXCEPT !["_comment"] = Str("Cesky"),
                             !["app_title"] = Str("Kalkulacka"),
                             !["invalid_date"] = Str("")]

NoFile == [present |-> FALSE, raw |-> EmptyObject]
KeptFile(raw) == [present |-> TRUE, raw |-> raw]

cleanI18nData(rawData) ==
    [k \in PropNames |-> IF StartsWith(k, "_") THEN NoProp ELSE rawData[k]]

\* the emergency translations of l.87-92
EmergencyData ==
    [EmptyObject EXCEPT !["app_title"] = Str("Calendar Calculator"),
                        !["calculating"] = Str("Calculating..."),
                        !["calculation_error"] = Str("Calculation error"),
                        !["invalid_date"] = Str("Invalid date format")]

\* what a call of loadI18n leaves in i18nData and window.i18nDataCache when
\* the fetches of the languages in ok succeed and the others fail
RECURSIVE loadI18nResult(_, _, _)
loadI18nResult(lang, ok, kept) ==
    LET l == IF lang \in SUPPORTED_LANGUAGES THEN lang ELSE I18N_DEFAULT
    IN  IF kept[l].present
        THEN [data |-> cleanI18nData(kept[l].raw), kept |-> kept]
        ELSE IF l \in ok
        THEN [data |-> cleanI18nData(I18nFile(l)),
              kept |-> [kept EXCEPT ![l] = KeptFile(I18nFile(l))]]
        ELSE IF l # I18N_DEFAULT
        THEN loadI18nResult(I18N_DEFAULT, ok, kept)
        ELSE [data |-> EmergencyData, kept |-> kept]

\* String.prototype.replace with the global pattern pat, a literal text
RECURSIVE ReplaceAll(_, _, _)
ReplaceAll(str, pat, by) ==
    IF Len(str) < Len(pat) THEN str
    ELSE IF StartsWith(str, pat)
    THEN by \o ReplaceAll(SubSeq(str, Len(pat) + 1, Len(str)), pat, by)
    ELSE SubSeq(str, 1, 1) \o ReplaceAll(SubSeq(str, 2, Len(str)), pat, by)

\* l.112-114: one replace per variable, in the order of Object.keys(vars)
RECURSIVE ReplaceVars(_, _)
ReplaceVars(val, vs) ==
    IF vs = <<>> THEN val
    ELSE ReplaceVars(ReplaceAll(val, "{" \o Head(vs).name \o "}", Head(vs).value),
                     Tail(vs))

\* l.99-116; !i18nData is false for every object
i18n(key, vs) ==
    IF ~i18nReady THEN Str("[" \o key \o "]")
    ELSE LET val == Get(i18nData, key)
         IN  IF val = Undefined THEN Str("[" \o key \o "]")
             ELSE IF vs = <<>> THEN val
             ELSE IF val.type # "string" THEN TypeError
             ELSE Str(ReplaceVars(val.text, vs))

\* the keys looked up and the variables given
LookupKeys == {"app_title", "days_count", "invalid_date", "_comment", "constructor", "moon_new"}
VarLists ==
    {<<>>,
     <<[name |-> "n", value |-> "5"]>>,
     <<[name |-> "n", value |-> "{m}"], [name |-> "m", value |-> "7"]>>}

NoCall == [key |-> "", vars |-> <<>>, ready |-> FALSE, stored |-> NoProp,
           result |-> Undefined]

InitI18n ==
    /\ i18nData = EmptyObject
    /\ i18nReady = FALSE
    /\ i18nDataCache = [l \in CachedLangs |-> NoFile]
    /\ translated = NoCall

loadI18n(lang, ok) ==
    LET r == loadI18nResult(lang, ok, i18nDataCache)
    IN  /\ i18nData' = r.data
        /\ i18nDataCache' = r.kept
        /\ i18nReady' = TRUE
        /\ UNCHANGED <<translated, swVars>>

\* a caller of i18n, as updateI18nUI and the name helpers of l.119-180
Translate(key, vs) ==
    /\ translated' = [key |-> key, vars |-> vs, ready |-> i18nReady,
                      stored |-> i18nData[key], result |-> i18n(key, vs)]
    /\ UNCHANGED <<i18nData, i18nReady, i18nDataCache, swVars>>

NextI18n ==
    \/ \E lang \in Langs, ok \in SUBSET CachedLangs : loadI18n(lang, ok)
    \/ \E key \in LookupKeys, vs \in VarLists : Translate(key, vs)

(***************************************************************************)
(* The platform: clock, network, clients                                   *)
(***************************************************************************)
\* Date.now() in milliseconds; the worker starts at a positive time
DateNow == 15000 * (now + 1)

\* what a fetch of an identifier can produce
NetOutcomes == {"ok", "notok", "reject"}

\* self.clients.matchAll(): the open clients this worker controls, which
\* are all open clients once clients.claim() has taken effect
MatchAll == IF claimState = "done"
            THEN {c \in ClientIds : clientState[c] = "open"}
            ELSE {}

\* client.postMessage(msg) for every client of a list
PostAll(box, to, msg) == [c \in ClientIds |-> IF c \in to THEN Append(box[c], msg) ELSE box[c]]

Tick ==
    /\ now < MaxTicks
    /\ now' = now + 1
    /\ UNCHANGED <<caches, i18nVars, live, deploys, installVars, clientVars, activateVars,
                   routerVars, checkVars>>

\* a new build of identifier k is deployed on the server
Deploy(k) ==
    /\ deploys < MaxDeploys
    /\ deploys' = deploys + 1
    /\ live' = [live EXCEPT ![k] = live[k] + 1]
    /\ UNCHANGED <<caches, i18nVars, now, installVars, clientVars, activateVars,
                   routerVars, checkVars>>

ClientConnect(c) ==
    /\ clientState[c] = "new"
    /\ clientState' = [clientState EXCEPT ![c] = "open"]
    /\ UNCHANGED <<caches, i18nVars, envVars, installVars, inbox, activateVars,
                   routerVars, checkVars>>

ClientDisconnect(c) ==
    /\ clientState[c] = "open"
    /\ clientState' = [clientState EXCEPT ![c] = "closed"]
    /\ UNCHANGED <<caches, i18nVars, envVars, installVars, inbox, activateVars,
                   routerVars, checkVars>>

(***************************************************************************)
(* State after the script has been evaluated (src/sw.js:1-24, 528)         *)
(***************************************************************************)
InitInstall ==
    /\ phase = "parsed"
    /\ isInstalled = FALSE
    /\ installPromise = "null"
    /\ installPc = "idle"
    /\ installFetch = [i \in ManifestIdx |-> "none"]
    /\ installEvents = 0
    /\ fetchCount = [i \in ManifestIdx |-> 0]
    /\ installOutcome = "none"
    /\ successful = 0
    /\ failed = 0
    /\ skipWaitingCalls = 0

InitEnv ==
    /\ live = [k \in Keys |-> 1]
    /\ deploys = 0
    /\ now = 0

\* caches left behind by earlier versions of the worker and by other code
LeftoverCache == [k \in Keys |-> IF k \in ManifestKeys THEN 1 ELSE Absent]
InitCaches ==
    \E old \in SUBSET OldNames :
        caches = [n \in AllNames |->
                    IF n \in old \cup {SiblingName, ForeignName}
                    THEN LeftoverCache
                    ELSE NoCache]

InitClients ==
    /\ clientState = [c \in ClientIds |-> "new"]
    /\ inbox = [c \in ClientIds |-> <<>>]

InitActivation ==
    /\ activatePc = "idle"
    /\ keysState = "none"
    /\ deletes = [n \in AllNames |-> "none"]
    /\ claimState = "none"

\* a slot: where the handler is (pc), the request, the index into the
\* alternatives, the response given to respondWith, and what happened on
\* behalf of the request:
\* whether its identifier was cached when the event arrived, the fetches
\* the router awaited for it (net), the outcome of that fetch (netResult),
\* whether tryNetwork threw, and whether a background refresh was started
IdleReq ==
    [pc |-> "idle", req |-> NoRequest, alt |-> 0, resp |-> NoResponse,
     cachedAtStart |-> FALSE, net |-> 0, netResult |-> "none", thrown |-> FALSE,
     refresh |-> FALSE]
IdleBg == [pc |-> "idle", url |-> "", new |-> 0]
InitRouter ==
    /\ reqs = [s \in Slots |-> IdleReq]
    /\ pendingPuts = {}
    /\ unhandledrejection = {}
    /\ lastBackgroundUpdate = 0
    /\ bg = [b \in BgSlots |-> IdleBg]
    /\ bgCount = 0
    /\ bgStarts = <<0, 0>>

\* a run of checkForUpdates: where it is (pc), the list matchAll gave at
\* l.393, the index into urlsToCheck, the text of the fetched response, and
\* hasUpdates; sameAtStart and deploysAtStart record what was deployed
\* when the run took its list, skipped the indexes whose try block ended in
\* the catch of l.427-429
IdleCheck ==
    [pc |-> "idle", clients |-> {}, idx |-> 0, new |-> 0, hasUpdates |-> FALSE,
     sameAtStart |-> FALSE, deploysAtStart |-> 0, skipped |-> {}]
InitChecks == checks = [i \in CheckIds |-> IdleCheck]

Init ==
    /\ InitCaches /\ InitI18n /\ InitEnv /\ InitInstall /\ InitClients
    /\ InitActivation /\ InitRouter /\ InitChecks

(***************************************************************************)
(* install listener, src/sw.js:27-71                                       *)
(***************************************************************************)
\* the listener without the memo test of l.30-33: every delivery starts a chain
InstallEventNoMemo ==
    /\ installEvents < MaxInstallEvents
    /\ phase \in {"parsed", "installing", "installed"}
    /\ installEvents' = installEvents + 1
    /\ installPromise' = "pending"
    /\ installPc' = "opening"
    /\ phase' = "installing"
    /\ UNCHANGED <<caches, isInstalled, installFetch, fetchCount,
                   installOutcome, successful, failed, skipWaitingCalls>>
    /\ UNCHANGED <<i18nVars, envVars, clientVars, activateVars, routerVars, checkVars>>

\* l.27-35, 70: the event arrives; a second delivery waits on installPromise
InstallEvent ==
    /\ installEvents < MaxInstallEvents
    /\ phase \in {"parsed", "installing", "installed"}
    /\ installEvents' = installEvents + 1
    /\ IF installPromise # "null"
       THEN UNCHANGED <<phase, installPromise, installPc>>
       ELSE /\ installPromise' = "pending"
            /\ installPc' = "opening"
            /\ phase' = "installing"
    /\ UNCHANGED <<caches, isInstalled, installFetch, fetchCount,
                   installOutcome, successful, failed, skipWaitingCalls>>
    /\ UNCHANGED <<i18nVars, envVars, clientVars, activateVars, routerVars, checkVars>>

\* l.35-41: caches.open resolves and the map() starts one fetch per entry
InstallOpened ==
    /\ installPc = "opening"
    /\ caches' = CachesOpen(caches, CACHE_NAME)
    /\ installPc' = "fetching"
    /\ installFetch' = [i \in ManifestIdx |-> "fetching"]
    /\ fetchCount' = [i \in ManifestIdx |-> fetchCount[i] + 1]
    /\ UNCHANGED <<phase, isInstalled, installPromise, installEvents,
                   installOutcome, successful, failed, skipWaitingCalls>>
    /\ UNCHANGED <<i18nVars, envVars, clientVars, activateVars, routerVars, checkVars>>

\* the chain without the catch of l.65-68: the rejection of caches.open
\* rejects installPromise and skipWaiting is not called
InstallOpenFailedUncaught ==
    /\ installPc = "opening"
    /\ installPc' = "done"
    /\ installOutcome' = "failed"
    /\ installPromise' = "rejected"
    /\ UNCHANGED <<caches, phase, isInstalled, installFetch, installEvents,
                   fetchCount, successful, failed, skipWaitingCalls>>
    /\ UNCHANGED <<i18nVars, envVars, clientVars, activateVars, routerVars, checkVars>>

\* l.65-68: caches.open rejects; the catch handler still calls skipWaiting
InstallOpenFailed ==
    /\ installPc = "opening"
    /\ installPc' = "done"
    /\ installOutcome' = "failed"
    /\ skipWaitingCalls' = skipWaitingCalls + 1
    /\ installPromise' = "fulfilled"
    /\ phase' = "installed"
    /\ UNCHANGED <<caches, isInstalled, installFetch, installEvents,
                   fetchCount, successful, failed>>
    /\ UNCHANGED <<i18nVars, envVars, clientVars, activateVars, routerVars, checkVars>>

\* l.41-44: the fetch of entry i answers with an ok status; cache.put is called
InstallFetchOk(i) ==
    /\ installPc = "fetching"
    /\ installFetch[i] = "fetching"
    /\ installFetch' = [installFetch EXCEPT ![i] = "putting"]
    /\ UNCHANGED <<caches, phase, isInstalled, installPromise, installPc,
                   installEvents, fetchCount, installOutcome,
                   successful, failed, skipWaitingCalls>>
    /\ UNCHANGED <<i18nVars, envVars, clientVars, activateVars, routerVars, checkVars>>

\* l.44: the put of entry i completes
InstallPutDone(i) ==
    /\ installPc = "fetching"
    /\ installFetch[i] = "putting"
    /\ caches' = CachePut(caches, CACHE_NAME, Resolve(Manifest[i]), live[Resolve(Manifest[i])])
    /\ installFetch' = [installFetch EXCEPT ![i] = "stored"]
    /\ UNCHANGED <<phase, isInstalled, installPromise, installPc,
                   installEvents, fetchCount, installOutcome,
                   successful, failed, skipWaitingCalls>>
    /\ UNCHANGED <<i18nVars, envVars, clientVars, activateVars, routerVars, checkVars>>

\* the per-entry chain without its catch (l.48-51) under Promise.all: one
\* failed entry rejects the whole chain, which ends in the handler of l.65-68
InstallFetchFailedAborts(i) ==
    /\ installPc = "fetching"
    /\ installFetch[i] = "fetching"
    /\ installFetch' = [installFetch EXCEPT ![i] = "skipped"]
    /\ installPc' = "done"
    /\ installOutcome' = "failed"
    /\ skipWaitingCalls' = skipWaitingCalls + 1
    /\ installPromise' = "fulfilled"
    /\ phase' = "installed"
    /\ UNCHANGED <<caches, isInstalled, installEvents, fetchCount, successful, failed>>
    /\ UNCHANGED <<i18nVars, envVars, clientVars, activateVars, routerVars, checkVars>>

\* l.46-51: the fetch rejects or answers with a non-ok status; logged, skipped
InstallFetchFailed(i) ==
    /\ installPc = "fetching"
    /\ installFetch[i] = "fetching"
    /\ installFetch' = [installFetch EXCEPT ![i] = "skipped"]
    /\ UNCHANGED <<caches, phase, isInstalled, installPromise, installPc,
                   installEvents, fetchCount, installOutcome,
                   successful, failed, skipWaitingCalls>>
    /\ UNCHANGED <<i18nVars, envVars, clientVars, activateVars, routerVars, checkVars>>

\* what Promise.allSettled reports for entry i: the per-entry chain ends in
\* a catch that returns Promise.resolve(), so it is fulfilled either way
SettledStatus(i) == "fulfilled"

\* l.55-63: all chains have settled
InstallSettled ==
    /\ installPc = "fetching"
    /\ \A i \in ManifestIdx : installFetch[i] \in {"stored", "skipped"}
    /\ successful' = Cardinality({i \in ManifestIdx : SettledStatus(i) = "fulfilled"})
    /\ failed' = Cardinality({i \in ManifestIdx : SettledStatus(i) = "rejected"})
    /\ isInstalled' = TRUE
    /\ skipWaitingCalls' = skipWaitingCalls + 1
    /\ installOutcome' = "complete"
    /\ installPromise' = "fulfilled"
    /\ installPc' = "done"
    /\ phase' = "installed"
    /\ UNCHANGED <<caches, installFetch, installEvents, fetchCount>>
    /\ UNCHANGED <<i18nVars, envVars, clientVars, activateVars, routerVars, checkVars>>

NextInstall ==
    \/ InstallEvent
    \/ InstallOpened
    \/ InstallOpenFailed
    \/ \E i \in ManifestIdx : InstallFetchOk(i)
    \/ \E i \in ManifestIdx : InstallPutDone(i)
    \/ \E i \in ManifestIdx : InstallFetchFailed(i)
    \/ InstallSettled

SpecInstall == Init /\ [][NextInstall]_vars

\* the platform settles every caches.open, fetch and cache.put, and runs
\* the handler of a settled promise
FairInstall ==
    /\ WF_vars(InstallOpened \/ InstallOpenFailed)
    /\ \A i \in ManifestIdx : WF_vars(InstallFetchOk(i) \/ InstallFetchFailed(i))
    /\ \A i \in ManifestIdx : WF_vars(InstallPutDone(i))
    /\ WF_vars(InstallSettled)

SpecInstallFair == SpecInstall /\ FairInstall

(***************************************************************************)
(* activate listener, src/sw.js:74-114                                     *)
(***************************************************************************)
\* a filter without the test of the prefix
ShouldDeleteEveryOther(cacheName) == cacheName # CACHE_NAME

\* a filter without the test against CACHE_NAME
ShouldDeleteWholeFamily(cacheName) == StartsWith(cacheName, CACHE_BASE_NAME)

\* l.83: the caches the handler deletes
ShouldDelete(cacheName) ==
    StartsWith(cacheName, CACHE_BASE_NAME) /\ cacheName # CACHE_NAME

SW_ACTIVATED ==
    [type |-> "SW_ACTIVATED", from |-> "activate",
     cacheName |-> CACHE_NAME, version |-> CACHE_VERSION]

\* l.74-92: building the array of Promise.all calls caches.keys() and then
\* self.clients.claim(), both before anything resolves
ActivateEvent ==
    /\ phase = "installed"
    /\ activatePc = "idle"
    /\ phase' = "activating"
    /\ activatePc' = "all"
    /\ keysState' = "pending"
    /\ claimState' = "pending"
    /\ UNCHANGED <<caches, isInstalled, installPromise, installPc, installFetch,
                   installEvents, fetchCount, installOutcome, successful,
                   failed, skipWaitingCalls, deletes>>
    /\ UNCHANGED <<i18nVars, envVars, clientVars, routerVars, checkVars>>

\* l.80-88: caches.keys() resolves; map() calls caches.delete for every
\* superseded name of the list
KeysResolved ==
    /\ keysState = "pending"
    /\ keysState' = "resolved"
    /\ deletes' = [n \in AllNames |->
                     IF n \in CachesKeys(caches) /\ ShouldDelete(n)
                     THEN "pending" ELSE deletes[n]]
    /\ UNCHANGED <<caches, activatePc, claimState>>
    /\ UNCHANGED <<i18nVars, envVars, installVars, clientVars, routerVars, checkVars>>

\* l.85: one caches.delete resolves
DeleteDone(n) ==
    /\ deletes[n] = "pending"
    /\ deletes' = [deletes EXCEPT ![n] = "done"]
    /\ caches' = CachesDelete(caches, n)
    /\ UNCHANGED <<activatePc, keysState, claimState>>
    /\ UNCHANGED <<i18nVars, envVars, installVars, clientVars, routerVars, checkVars>>

\* l.85, 110-112: one caches.delete rejects; both Promise.all reject with it,
\* the then-handlers of l.93-109 are skipped and the catch logs the error
DeleteFailed(n) ==
    /\ deletes[n] = "pending"
    /\ deletes' = [deletes EXCEPT ![n] = "failed"]
    /\ IF activatePc = "all"
       THEN activatePc' = "error" /\ phase' = "activated"
       ELSE UNCHANGED <<activatePc, phase>>
    /\ UNCHANGED <<caches, keysState, claimState, isInstalled, installPromise,
                   installPc, installFetch, installEvents, fetchCount,
                   installOutcome, successful, failed, skipWaitingCalls>>
    /\ UNCHANGED <<i18nVars, envVars, clientVars, routerVars, checkVars>>

\* l.91: self.clients.claim() resolves
ClaimDone ==
    /\ claimState = "pending"
    /\ claimState' = "done"
    /\ UNCHANGED <<caches, activatePc, keysState, deletes>>
    /\ UNCHANGED <<i18nVars, envVars, installVars, clientVars, routerVars, checkVars>>

\* the handler with l.93 chained to caches.keys() alone: it runs as soon
\* as the list is there
ActivateAllDoneEarly ==
    /\ activatePc = "all"
    /\ keysState = "resolved"
    /\ isInstalled' = TRUE
    /\ activatePc' = "matchAll"
    /\ UNCHANGED <<caches, phase, installPromise, installPc, installFetch,
                   installEvents, fetchCount, installOutcome, successful,
                   failed, skipWaitingCalls, keysState, deletes, claimState>>
    /\ UNCHANGED <<i18nVars, envVars, clientVars, routerVars, checkVars>>

\* l.78-98: both members of Promise.all are fulfilled: every delete and the claim
ActivateAllDone ==
    /\ activatePc = "all"
    /\ keysState = "resolved"
    /\ \A n \in AllNames : deletes[n] \in {"none", "done"}
    /\ claimState = "done"
    /\ isInstalled' = TRUE
    /\ activatePc' = "matchAll"
    /\ UNCHANGED <<caches, phase, installPromise, installPc, installFetch,
                   installEvents, fetchCount, installOutcome, successful,
                   failed, skipWaitingCalls, keysState, deletes, claimState>>
    /\ UNCHANGED <<i18nVars, envVars, clientVars, routerVars, checkVars>>

\* l.98-109: matchAll() resolves and every client of the list is notified
ActivateNotify ==
    /\ activatePc = "matchAll"
    /\ inbox' = PostAll(inbox, MatchAll, SW_ACTIVATED)
    /\ activatePc' = "done"
    /\ phase' = "activated"
    /\ UNCHANGED <<caches, isInstalled, installPromise, installPc, installFetch,
                   installEvents, fetchCount, installOutcome, successful,
                   failed, skipWaitingCalls, keysState, deletes, claimState,
                   clientState>>
    /\ UNCHANGED <<i18nVars, envVars, routerVars, checkVars>>

NextActivate ==
    \/ ActivateEvent
    \/ KeysResolved
    \/ \E n \in AllNames : DeleteDone(n)
    \/ \E n \in AllNames : DeleteFailed(n)
    \/ ClaimDone
    \/ ActivateAllDone
    \/ ActivateNotify

NextClients ==
    \/ \E c \in ClientIds : ClientConnect(c)
    \/ \E c \in ClientIds : ClientDisconnect(c)

(***************************************************************************)
(* States in which an install has settled: the "complete" branch with the  *)
(* set S of manifest identifiers stored, or the "failed" branch after       *)
(* caches.open was rejected (no cache of the current name).                *)
(***************************************************************************)
InstallResults ==
    {[outcome |-> "complete", stored |-> ManifestKeys],
     [outcome |-> "complete", stored |-> ManifestKeys \ {Resolve(Manifest[1])}],
     [outcome |-> "failed", stored |-> {}]}

InstalledAs(r) ==
    /\ phase = "installed"
    /\ isInstalled = (r.outcome = "complete")
    /\ installPromise = "fulfilled"
    /\ installPc = "done"
    /\ installFetch = [i \in ManifestIdx |->
                         IF r.outcome = "failed" THEN "none"
                         ELSE IF Resolve(Manifest[i]) \in r.stored THEN "stored"
                         ELSE "skipped"]
    /\ installEvents = 1
    /\ fetchCount = [i \in ManifestIdx |-> IF r.outcome = "complete" THEN 1 ELSE 0]
    /\ installOutcome = r.outcome
    /\ successful = (IF r.outcome = "complete" THEN Len(Manifest) ELSE 0)
    /\ failed = 0
    /\ skipWaitingCalls = 1
    /\ \E old \in SUBSET OldNames :
         caches = [n \in AllNames |->
                     IF n = CACHE_NAME
                     THEN (IF r.outcome = "complete"
                           THEN [k \in Keys |-> IF k \in r.stored THEN 1 ELSE Absent]
                           ELSE NoCache)
                     ELSE IF n \in old \cup {SiblingName, ForeignName}
                     THEN LeftoverCache
                     ELSE NoCache]

InitActivate ==
    /\ \E r \in InstallResults : InstalledAs(r)
    /\ InitI18n /\ InitEnv /\ InitClients /\ InitActivation /\ InitRouter /\ InitChecks

SpecActivate == InitActivate /\ [][NextActivate \/ NextClients]_vars

(***************************************************************************)
(* fetch listener and handleRequest, src/sw.js:117-230                     *)
(***************************************************************************)
RATE_LIMIT_MS == 30000

\* updateInBackground without its test of l.235-238
RateLimitedNever == FALSE
\* l.235-236
RateLimited ==
    lastBackgroundUpdate # 0 /\ DateNow - lastBackgroundUpdate < RATE_LIMIT_MS

\* l.233-242: updateInBackground(request) up to its call of fetch; the
\* rest of it runs later, as the refresh of a background slot
updateInBackground(request) ==
    IF RateLimited
    THEN UNCHANGED <<lastBackgroundUpdate, bg, bgCount, bgStarts>>
    ELSE /\ bgCount + 1 \in BgSlots
         /\ lastBackgroundUpdate' = DateNow
         /\ bg' = [bg EXCEPT ![bgCount + 1] =
                      [pc |-> "fetch", url |-> request.url, new |-> 0]]
         /\ bgCount' = bgCount + 1
         /\ bgStarts' = <<bgStarts[2], DateNow>>

\* a listener without the special case of l.128-132
IsOwnScriptNever(url) == FALSE

\* l.129: the test for the worker's own script
IsOwnScript(url) == Includes(url, "sw.js")

\* l.117-137: the fetch event of request r arrives and is given slot s
FetchEvent(s, r) ==
    /\ phase = "activated"
    /\ reqs[s].pc \in {"idle", "done"}
    /\ LET fresh == [IdleReq EXCEPT !.req = r,
                        !.cachedAtStart = CacheMatch(caches, CACHE_NAME, r.url) > Absent]
       IN  reqs' = [reqs EXCEPT ![s] =
               IF r.method # "GET" \/ ~StartsWith(r.url, Origin)
               THEN [fresh EXCEPT !.pc = "done", !.resp = NotIntercepted]
               ELSE IF IsOwnScript(r.url)
               THEN [fresh EXCEPT !.pc = "sw", !.net = 1]
               ELSE [fresh EXCEPT !.pc = "match"]]
    /\ UNCHANGED <<caches, pendingPuts, lastBackgroundUpdate, bg, bgCount, bgStarts>>
    /\ UNCHANGED <<i18nVars, envVars, installVars, clientVars, activateVars, checkVars,
                   unhandledrejection>>

\* l.130: respondWith(fetch(event.request)) settles
SwFetchSettle(s, outcome) ==
    /\ reqs[s].pc = "sw"
    /\ reqs' = [reqs EXCEPT ![s].pc = "done", ![s].netResult = outcome,
                  ![s].resp = CASE outcome = "ok" -> NetworkResponse(live[reqs[s].req.url])
                                [] outcome = "notok" -> NotOkResponse
                                [] OTHER -> Rejected]
    /\ UNCHANGED <<caches, pendingPuts, lastBackgroundUpdate, bg, bgCount, bgStarts>>
    /\ UNCHANGED <<i18nVars, envVars, installVars, clientVars, activateVars, checkVars,
                   unhandledrejection>>

\* a handleRequest that refreshes behind every cache hit, page or not
ServeFromCacheAlwaysRefresh(s, c) ==
    /\ reqs' = [reqs EXCEPT ![s].pc = "done", ![s].alt = 0,
                  ![s].resp = CachedResponse(c),
                  ![s].refresh = ~RateLimited]
    /\ updateInBackground(reqs[s].req)

\* l.143-153: getCachedResponse returned entry c; handleRequest serves it
\* and, for a page request, calls updateInBackground
ServeFromCache(s, c) ==
    /\ reqs' = [reqs EXCEPT ![s].pc = "done", ![s].alt = 0,
                  ![s].resp = CachedResponse(c),
                  ![s].refresh = isHTMLRequest(reqs[s].req) /\ ~RateLimited]
    /\ IF isHTMLRequest(reqs[s].req)
       THEN updateInBackground(reqs[s].req)
       ELSE UNCHANGED <<lastBackgroundUpdate, bg, bgCount, bgStarts>>

\* l.156-158, 197-205: getCachedResponse returned null; tryNetwork calls fetch
CallNetwork(s) ==
    /\ reqs' = [reqs EXCEPT ![s].pc = "net", ![s].alt = 0, ![s].net = reqs[s].net + 1]
    /\ UNCHANGED <<lastBackgroundUpdate, bg, bgCount, bgStarts>>

\* l.168-175: caches.open and cache.match(request) resolve
ReqMatch(s) ==
    /\ reqs[s].pc = "match"
    /\ caches' = CachesOpen(caches, CACHE_NAME)
    /\ LET c == CacheMatch(caches', CACHE_NAME, reqs[s].req.url)
       IN  IF c # Absent THEN ServeFromCache(s, c)
           ELSE IF isHTMLRequest(reqs[s].req)
           THEN /\ reqs' = [reqs EXCEPT ![s].pc = "alt", ![s].alt = 1]
                /\ UNCHANGED <<lastBackgroundUpdate, bg, bgCount, bgStarts>>
           ELSE CallNetwork(s)
    /\ UNCHANGED pendingPuts
    /\ UNCHANGED <<i18nVars, envVars, installVars, clientVars, activateVars, checkVars,
                   unhandledrejection>>

\* l.176-180: cache.match(alt) resolves for the next alternative key
ReqAlt(s) ==
    /\ reqs[s].pc = "alt"
    /\ LET c == CacheMatch(caches, CACHE_NAME, Resolve(alternatives[reqs[s].alt]))
       IN  IF c # Absent THEN ServeFromCache(s, c)
           ELSE IF reqs[s].alt < Len(alternatives)
           THEN /\ reqs' = [reqs EXCEPT ![s].alt = reqs[s].alt + 1]
                /\ UNCHANGED <<lastBackgroundUpdate, bg, bgCount, bgStarts>>
           ELSE CallNetwork(s)
    /\ UNCHANGED <<caches, pendingPuts>>
    /\ UNCHANGED <<i18nVars, envVars, installVars, clientVars, activateVars, checkVars,
                   unhandledrejection>>

\* a handleRequest without the try/catch of l.141, 160-163
handleRequestNoCatch == Rejected
\* l.160-163: what handleRequest returns when its body has thrown
handleRequestCatch == createErrorResponse

\* l.202-214: the fetch of tryNetwork answers with an ok status, caches.open
\* resolves, cache.put is called but not awaited, and the response is returned
NetOk(s) ==
    /\ reqs[s].pc = "net"
    /\ LET put == [key |-> reqs[s].req.url, content |-> live[reqs[s].req.url]]
       IN  /\ put \in pendingPuts \/ Cardinality(pendingPuts) < MaxRequests
           /\ pendingPuts' = pendingPuts \cup {put}
    /\ caches' = CachesOpen(caches, CACHE_NAME)
    /\ reqs' = [reqs EXCEPT ![s].pc = "done", ![s].netResult = "ok",
                  ![s].resp = NetworkResponse(live[reqs[s].req.url])]
    /\ UNCHANGED <<lastBackgroundUpdate, bg, bgCount, bgStarts>>
    /\ UNCHANGED <<i18nVars, envVars, installVars, clientVars, activateVars, checkVars,
                   unhandledrejection>>

\* a tryNetwork that also stores what it returns after a failure
NetFailedCached(s, outcome) ==
    /\ reqs[s].pc = "net"
    /\ reqs' = [reqs EXCEPT ![s].pc = "done", ![s].netResult = outcome,
                  ![s].thrown = ~isHTMLRequest(reqs[s].req),
                  ![s].resp = IF isHTMLRequest(reqs[s].req)
                              THEN createOfflineResponse
                              ELSE handleRequestCatch]
    /\ pendingPuts' = pendingPuts \cup
                        {[key |-> reqs[s].req.url, content |-> reqs'[s].resp.body]}
    /\ UNCHANGED <<caches, lastBackgroundUpdate, bg, bgCount, bgStarts>>
    /\ UNCHANGED <<i18nVars, envVars, installVars, clientVars, activateVars, checkVars,
                   unhandledrejection>>

\* l.217-229, 160-163: the fetch rejects, is aborted after 5 s or answers
\* with a non-ok status; tryNetwork returns the offline page for a page
\* request and throws otherwise, which handleRequest catches
NetFailed(s, outcome) ==
    /\ reqs[s].pc = "net"
    /\ reqs' = [reqs EXCEPT ![s].pc = "done", ![s].netResult = outcome,
                  ![s].thrown = ~isHTMLRequest(reqs[s].req),
                  ![s].resp = IF isHTMLRequest(reqs[s].req)
                              THEN createOfflineResponse
                              ELSE handleRequestCatch]
    /\ UNCHANGED <<caches, pendingPuts, lastBackgroundUpdate, bg, bgCount, bgStarts>>
    /\ UNCHANGED <<i18nVars, envVars, installVars, clientVars, activateVars, checkVars,
                   unhandledrejection>>

\* l.212: a put of tryNetwork completes
PutSettle(p) ==
    /\ p \in pendingPuts
    /\ caches' = CachePut(CachesOpen(caches, CACHE_NAME), CACHE_NAME, p.key, p.content)
    /\ pendingPuts' = pendingPuts \ {p}
    /\ UNCHANGED <<reqs, lastBackgroundUpdate, bg, bgCount, bgStarts>>
    /\ UNCHANGED <<i18nVars, envVars, installVars, clientVars, activateVars, checkVars,
                   unhandledrejection>>

\* l.214, 456-459: a put of tryNetwork is rejected; no handler is attached
\* to it, the rejection goes to the unhandledrejection listener
PutRejected(p) ==
    /\ p \in pendingPuts
    /\ pendingPuts' = pendingPuts \ {p}
    /\ unhandledrejection' = unhandledrejection \cup {p.key}
    /\ UNCHANGED <<caches, reqs, lastBackgroundUpdate, bg, bgCount, bgStarts>>
    /\ UNCHANGED <<i18nVars, envVars, installVars, clientVars, activateVars, checkVars>>

\* getCachedResponse called outside the try of handleRequest
ReqMatchFailedUncaught(s) ==
    /\ reqs[s].pc = "match"
    /\ reqs' = [reqs EXCEPT ![s].pc = "done", ![s].thrown = TRUE,
                  ![s].resp = Rejected]
    /\ UNCHANGED <<caches, pendingPuts, lastBackgroundUpdate, bg, bgCount, bgStarts>>
    /\ UNCHANGED <<i18nVars, envVars, installVars, clientVars, activateVars, checkVars,
                   unhandledrejection>>

\* l.168-171, 160-163: caches.open or cache.match of getCachedResponse
\* rejects; handleRequest catches it
ReqMatchFailed(s) ==
    /\ reqs[s].pc = "match"
    /\ reqs' = [reqs EXCEPT ![s].pc = "done", ![s].thrown = TRUE,
                  ![s].resp = handleRequestCatch]
    /\ UNCHANGED <<caches, pendingPuts, lastBackgroundUpdate, bg, bgCount, bgStarts>>
    /\ UNCHANGED <<i18nVars, envVars, installVars, clientVars, activateVars, checkVars,
                   unhandledrejection>>

(***************************************************************************)
(* updateInBackground after its fetch, src/sw.js:242-276                   *)
(***************************************************************************)
\* l.242-246: the refresh fetch answers with an ok status; its text is read
\* and caches.open resolves
BgFetchOk(b) ==
    /\ bg[b].pc = "fetch"
    /\ bg' = [bg EXCEPT ![b].pc = "match", ![b].new = live[bg[b].url]]
    /\ caches' = CachesOpen(caches, CACHE_NAME)
    /\ UNCHANGED <<reqs, pendingPuts, lastBackgroundUpdate, bgCount, bgStarts>>
    /\ UNCHANGED <<i18nVars, envVars, installVars, clientVars, activateVars, checkVars,
                   unhandledrejection>>

\* a refresh that gives its window back when its fetch fails
BgFetchFailedResets(b) ==
    /\ bg[b].pc = "fetch"
    /\ bg' = [bg EXCEPT ![b].pc = "done"]
    /\ lastBackgroundUpdate' = 0
    /\ UNCHANGED <<caches, reqs, pendingPuts, bgCount, bgStarts>>
    /\ UNCHANGED <<i18nVars, envVars, installVars, clientVars, activateVars, checkVars,
                   unhandledrejection>>

\* l.244, 272-275: the refresh fetch rejects or answers with a non-ok status
BgFetchFailed(b) ==
    /\ bg[b].pc = "fetch"
    /\ bg' = [bg EXCEPT ![b].pc = "done"]
    /\ UNCHANGED <<caches, reqs, pendingPuts, lastBackgroundUpdate, bgCount, bgStarts>>
    /\ UNCHANGED <<i18nVars, envVars, installVars, clientVars, activateVars, checkVars,
                   unhandledrejection>>

\* l.247-253: cache.match resolves and the two texts are compared
BgMatch(b) ==
    /\ bg[b].pc = "match"
    /\ LET c == CacheMatch(caches, CACHE_NAME, bg[b].url)
       IN  bg' = IF c # Absent /\ bg[b].new # c
                 THEN [bg EXCEPT ![b].pc = "put"]
                 ELSE [bg EXCEPT ![b].pc = "done", ![b].new = 0]
    /\ UNCHANGED <<caches, reqs, pendingPuts, lastBackgroundUpdate, bgCount, bgStarts>>
    /\ UNCHANGED <<i18nVars, envVars, installVars, clientVars, activateVars, checkVars,
                   unhandledrejection>>

\* l.256-258: the put of the new content completes
BgPut(b) ==
    /\ bg[b].pc = "put"
    /\ caches' = CachePut(CachesOpen(caches, CACHE_NAME), CACHE_NAME, bg[b].url, bg[b].new)
    /\ bg' = [bg EXCEPT ![b].pc = "notify"]
    /\ UNCHANGED <<reqs, pendingPuts, lastBackgroundUpdate, bgCount, bgStarts>>
    /\ UNCHANGED <<i18nVars, envVars, installVars, clientVars, activateVars, checkVars,
                   unhandledrejection>>

\* l.261-267: matchAll resolves and every client of the list is notified
BgNotify(b) ==
    /\ bg[b].pc = "notify"
    /\ inbox' = PostAll(inbox, MatchAll,
                        [type |-> "UPDATE_AVAILABLE", from |-> "refresh",
                         url |-> bg[b].url])
    /\ bg' = [bg EXCEPT ![b].pc = "done", ![b].new = 0]
    /\ UNCHANGED <<caches, clientState, reqs, pendingPuts, lastBackgroundUpdate,
                   bgCount, bgStarts, unhandledrejection>>
    /\ UNCHANGED <<i18nVars, envVars, installVars, activateVars, checkVars>>

NextRouter(RS) ==
    \/ \E s \in Slots, r \in RS : FetchEvent(s, r)
    \/ \E s \in Slots, o \in NetOutcomes : SwFetchSettle(s, o)
    \/ \E s \in Slots : ReqMatch(s)
    \/ \E s \in Slots : ReqAlt(s)
    \/ \E s \in Slots : NetOk(s)
    \/ \E s \in Slots, o \in {"notok", "reject", "timeout"} : NetFailed(s, o)
    \/ \E p \in pendingPuts : PutSettle(p)

NextRefresh ==
    \/ \E b \in BgSlots : BgFetchOk(b)
    \/ \E b \in BgSlots : BgFetchFailed(b)
    \/ \E b \in BgSlots : BgMatch(b)
    \/ \E b \in BgSlots : BgPut(b)
    \/ \E b \in BgSlots : BgNotify(b)

(***************************************************************************)
(* States in which the worker is activated and controls the clients        *)
(***************************************************************************)
ActivatedAs(r) ==
    /\ phase = "activated"
    /\ isInstalled = TRUE
    /\ installPromise = "fulfilled"
    /\ installPc = "done"
    /\ installFetch = [i \in ManifestIdx |->
                         IF r.outcome = "failed" THEN "none"
                         ELSE IF Resolve(Manifest[i]) \in r.stored THEN "stored"
                         ELSE "skipped"]
    /\ installEvents = 1
    /\ fetchCount = [i \in ManifestIdx |-> IF r.outcome = "complete" THEN 1 ELSE 0]
    /\ installOutcome = r.outcome
    /\ successful = (IF r.outcome = "complete" THEN Len(Manifest) ELSE 0)
    /\ failed = 0
    /\ skipWaitingCalls = 1
    /\ caches = [n \in AllNames |->
                   IF n = CACHE_NAME
                   THEN (IF r.outcome = "complete"
                         THEN [k \in Keys |-> IF k \in r.stored THEN 1 ELSE Absent]
                         ELSE NoCache)
                   ELSE IF n = ForeignName THEN LeftoverCache ELSE NoCache]
    /\ activatePc = "done"
    /\ keysState = "resolved"
    /\ deletes = [n \in AllNames |-> IF n = SiblingName THEN "done" ELSE "none"]
    /\ claimState = "done"

InitRouterSpec ==
    /\ \E r \in InstallResults : ActivatedAs(r)
    /\ InitI18n /\ InitEnv /\ InitClients /\ InitRouter /\ InitChecks

\* routing of every kind of request, at one instant of the clock
SpecRouter ==
    InitRouterSpec /\
    [][\/ NextRouter(RouterRequests)
       \/ NextRefresh
       \/ \E k \in {Resolve("./"), StyleUrl} : Deploy(k)]_vars

\* routing when the cache storage fails too: the lookup may be rejected,
\* and so may the write-back of tryNetwork
FaultRequests == {ReqNavRoot, ReqStyle, ReqSw}
SpecRouterFaults ==
    InitRouterSpec /\
    [][\/ NextRouter(FaultRequests)
       \/ \E s \in Slots : ReqMatchFailed(s)
       \/ \E p \in pendingPuts : PutRejected(p)
       \/ NextRefresh
       \/ Deploy(Resolve("./"))]_vars

\* the listener's choice of the requests it handles
InterceptRequests == {ReqNavRoot, ReqStyle, ReqSw, ReqPost, ReqForeign, ReqLookalike}
SpecIntercept ==
    InitRouterSpec /\
    [][\/ NextRouter(InterceptRequests)
       \/ NextRefresh
       \/ Deploy(Resolve("./"))]_vars

\* page requests served from a fully installed cache while time passes
RefreshRequests == {ReqNavRoot, ReqAbout, ReqScript}
InitRefreshSpec ==
    /\ ActivatedAs([outcome |-> "complete", stored |-> ManifestKeys])
    /\ InitI18n /\ InitEnv /\ InitClients /\ InitRouter /\ InitChecks

SpecRefresh ==
    InitRefreshSpec /\
    [][\/ \E s \in Slots, r \in RefreshRequests : FetchEvent(s, r)
       \/ \E s \in Slots : ReqMatch(s)
       \/ \E s \in Slots : ReqAlt(s)
       \/ NextRefresh
       \/ Tick
       \/ Deploy(Resolve("./"))
       \/ \E c \in ClientIds : ClientConnect(c)]_vars

(***************************************************************************)
(* checkForUpdates, src/sw.js:391-453.  fetch(url) and cache.put(url) take  *)
(* the relative url against the location of the script.  The outer catch   *)
(* of l.441-452 is not reachable: every await that can reject is inside    *)
(* the try of l.405-429.                                                   *)
(***************************************************************************)
CriticalKeys == {Resolve(urlsToCheck[j]) : j \in 1..Len(urlsToCheck)}

\* l.348-351 (message CHECK_UPDATES) and l.468-473 (sync): checkForUpdates()
StartCheck(i) ==
    /\ phase \in {"installed", "activating", "activated"}
    /\ checks[i].pc = "idle"
    /\ checks' = [checks EXCEPT ![i].pc = "matchAll"]
    /\ UNCHANGED <<caches, i18nVars, envVars, installVars, clientVars, activateVars, routerVars>>

\* l.393-398: matchAll resolves; every client of the list gets the start message
CheckStarted(i) ==
    /\ checks[i].pc = "matchAll"
    /\ checks' = [checks EXCEPT
                    ![i].pc = "fetch", ![i].clients = MatchAll, ![i].idx = 1,
                    ![i].sameAtStart =
                        \A k \in CriticalKeys : CacheMatch(caches, CACHE_NAME, k) = live[k],
                    ![i].deploysAtStart = deploys]
    /\ inbox' = PostAll(inbox, MatchAll,
                        [type |-> "UPDATE_CHECK_STARTED", from |-> "check", check |-> i])
    /\ UNCHANGED <<caches, clientState, i18nVars, envVars, installVars, activateVars, routerVars>>

\* l.404, 432-437: the loop goes to the next url; after the last one the
\* result is posted to the clients of the list taken at l.393
\* caught: the step came through the catch of l.427-429
CheckNext(i, found, caught) ==
    IF checks[i].idx < Len(urlsToCheck)
    THEN /\ checks' = [checks EXCEPT
                         ![i].pc = "fetch", ![i].idx = @ + 1,
                         ![i].new = 0, ![i].hasUpdates = found,
                         ![i].skipped = IF caught THEN @ \cup {checks[i].idx} ELSE @]
         /\ UNCHANGED inbox
    ELSE /\ checks' = [checks EXCEPT
                         ![i].pc = "done", ![i].new = 0, ![i].hasUpdates = found,
                         ![i].skipped = IF caught THEN @ \cup {checks[i].idx} ELSE @]
         /\ inbox' = PostAll(inbox,
                             {c \in checks[i].clients : clientState[c] = "open"},
                             [type |-> IF found THEN "UPDATE_AVAILABLE" ELSE "NO_UPDATES",
                              from |-> "check", check |-> i, timestamp |-> DateNow])

CheckAdvance(i, found) == CheckNext(i, found, FALSE)

\* l.406-409: the fetch answers ok; caches.open and cache.match follow
CheckFetchOk(i) ==
    /\ checks[i].pc = "fetch"
    /\ checks' = [checks EXCEPT ![i].pc = "match",
                                ![i].new = live[Resolve(urlsToCheck[checks[i].idx])]]
    /\ caches' = CachesOpen(caches, CACHE_NAME)
    /\ UNCHANGED <<i18nVars, envVars, installVars, clientVars, activateVars, routerVars>>

\* the check given up at the first url that fails, as if the failure
\* reached the catch of l.441-452
CheckFetchFailedAborts(i) ==
    /\ checks[i].pc = "fetch"
    /\ checks' = [checks EXCEPT ![i].pc = "done", ![i].skipped = @ \cup {checks[i].idx}]
    /\ inbox' = PostAll(inbox, MatchAll,
                        [type |-> "UPDATE_CHECK_FAILED", from |-> "check", check |-> i])
    /\ UNCHANGED <<caches, clientState, i18nVars, envVars, installVars, activateVars, routerVars>>

\* l.406-407, 427-429: the fetch rejects, or answers with a non-ok status
\* and the url is passed over
CheckFetchFailed(i) ==
    /\ checks[i].pc = "fetch"
    /\ CheckNext(i, checks[i].hasUpdates, TRUE)
    /\ UNCHANGED <<caches, clientState, i18nVars, envVars, installVars, activateVars, routerVars>>

\* the comparison without the test of l.411 for a cached response
CheckDiffersUncached(new, c) == new # c
\* l.411, 415: there is a cached response and the two texts differ
CheckDiffers(new, c) == c # Absent /\ new # c

\* l.409-417: cache.match resolves and the texts are compared
CheckMatch(i) ==
    /\ checks[i].pc = "match"
    /\ LET c == CacheMatch(caches, CACHE_NAME, Resolve(urlsToCheck[checks[i].idx]))
       IN  IF CheckDiffers(checks[i].new, c)
           THEN /\ checks' = [checks EXCEPT ![i].pc = "put", ![i].hasUpdates = TRUE]
                /\ UNCHANGED inbox
           ELSE CheckAdvance(i, checks[i].hasUpdates)
    /\ UNCHANGED <<caches, clientState, i18nVars, envVars, installVars, activateVars, routerVars>>

\* l.420-422: the put of the new content completes
CheckPut(i) ==
    /\ checks[i].pc = "put"
    /\ caches' = CachePut(CachesOpen(caches, CACHE_NAME), CACHE_NAME,
                          Resolve(urlsToCheck[checks[i].idx]), checks[i].new)
    /\ CheckAdvance(i, checks[i].hasUpdates)
    /\ UNCHANGED <<clientState, i18nVars, envVars, installVars, activateVars, routerVars>>

\* l.408-422, 427-429: caches.open, cache.match, a text() or cache.put rejects
CheckStorageFailed(i) ==
    /\ checks[i].pc \in {"match", "put"}
    /\ CheckNext(i, checks[i].hasUpdates, TRUE)
    /\ UNCHANGED <<caches, clientState, i18nVars, envVars, installVars, activateVars, routerVars>>

NextCheck ==
    \/ \E i \in CheckIds : StartCheck(i)
    \/ \E i \in CheckIds : CheckStarted(i)
    \/ \E i \in CheckIds : CheckFetchOk(i)
    \/ \E i \in CheckIds : CheckFetchFailed(i)
    \/ \E i \in CheckIds : CheckMatch(i)
    \/ \E i \in CheckIds : CheckPut(i)
    \/ \E i \in CheckIds : CheckStorageFailed(i)

\* update checks on an activated worker while builds are deployed and
\* clients come and go
InitUpdateSpec ==
    /\ \E r \in InstallResults : ActivatedAs(r)
    /\ InitI18n /\ InitEnv /\ InitClients /\ InitRouter /\ InitChecks

SpecUpdate ==
    InitUpdateSpec /\
    [][\/ NextCheck
       \/ NextClients
       \/ Tick
       \/ \E k \in CriticalKeys : Deploy(k)]_vars

\* the platform settles every matchAll, fetch, cache.match and cache.put of
\* a running check
FairCheck ==
    \A i \in CheckIds :
        /\ WF_vars(CheckStarted(i))
        /\ WF_vars(CheckFetchOk(i) \/ CheckFetchFailed(i))
        /\ WF_vars(CheckMatch(i) \/ CheckStorageFailed(i))
        /\ WF_vars(CheckPut(i) \/ CheckStorageFailed(i))

SpecUpdateFair == SpecUpdate /\ FairCheck

\* every writer of the cache in one life of the worker: an install with
\* failing fetches, an activation, then a page request that is answered
\* from the cache or the network, its refresh, and an update check
InitWrites ==
    /\ caches = [n \in AllNames |-> IF n = CACHE_NAME THEN NoCache ELSE LeftoverCache]
    /\ InitI18n /\ InitEnv /\ InitInstall /\ InitClients
    /\ InitActivation /\ InitRouter /\ InitChecks
SpecWrites ==
    InitWrites /\
    [][\/ InstallEvent
       \/ InstallOpened
       \/ \E i \in ManifestIdx : InstallFetchOk(i)
       \/ \E i \in ManifestIdx : InstallPutDone(i)
       \/ \E i \in ManifestIdx : InstallFetchFailed(i)
       \/ InstallSettled
       \/ ActivateEvent
       \/ KeysResolved
       \/ \E n \in AllNames : DeleteDone(n)
       \/ ClaimDone
       \/ ActivateAllDone
       \/ ActivateNotify
       \/ \E s \in Slots : FetchEvent(s, ReqNavRoot)
       \/ \E s \in Slots : ReqMatch(s)
       \/ \E s \in Slots : ReqAlt(s)
       \/ \E s \in Slots : NetOk(s)
       \/ \E s \in Slots, o \in {"notok", "reject", "timeout"} : NetFailed(s, o)
       \/ \E p \in pendingPuts : PutSettle(p)
       \/ NextRefresh
       \/ NextCheck
       \/ Deploy(Resolve("./"))]_vars

\* the two update modes side by side: page requests answered from the
\* cache start refreshes while an update check runs and builds are deployed
ModeRequests == {ReqNavRoot, ReqAbout}
SpecModes ==
    InitUpdateSpec /\
    [][\/ \E s \in Slots, r \in ModeRequests : FetchEvent(s, r)
       \/ \E s \in Slots : ReqMatch(s)
       \/ \E s \in Slots : ReqAlt(s)
       \/ NextRefresh
       \/ NextCheck
       \/ \E k \in {Resolve("./"), Resolve("./index.html")} : Deploy(k)
       \/ \E c \in ClientIds : ClientConnect(c)]_vars

\* the worker from the end of its install on: activation, then requests
\* and update checks (a check may be asked for while the worker activates)
Next ==
    \/ NextActivate
    \/ NextCheck
    \/ \E s \in Slots : FetchEvent(s, ReqStyle)
    \/ \E s \in Slots : ReqMatch(s)
    \/ \E s \in Slots : NetOk(s)
    \/ \E s \in Slots, o \in NetOutcomes : NetFailed(s, o)
    \/ \E p \in pendingPuts : PutSettle(p)
    \/ Deploy(Resolve("./"))

Spec == InitActivate /\ [][Next]_vars

(***************************************************************************)
(* Install: claims                                                         *)
(***************************************************************************)
FetchSucceeded == {i \in ManifestIdx : installFetch[i] \in {"putting", "stored"}}
FetchFailed == {i \in ManifestIdx : installFetch[i] = "skipped"}
FetchesIssued == \E i \in ManifestIdx : fetchCount[i] > 0

\* C1: once the install promise has settled after the manifest fetches were
\* issued, the cache of the new version holds exactly the identifiers whose
\* fetch succeeded (N-K of them), the install took the "complete" branch,
\* its promise is fulfilled and skipWaiting was called; it never took the
\* "Installation failed" branch.
C1_InstallStoresSucceeded ==
    /\ FetchesIssued => installOutcome # "failed"
    /\ (FetchesIssued /\ installPromise = "fulfilled") =>
          /\ installOutcome = "complete"
          /\ skipWaitingCalls >= 1
          /\ Stored(caches, CACHE_NAME) = {Resolve(Manifest[i]) : i \in FetchSucceeded}
          /\ Cardinality(Stored(caches, CACHE_NAME))
                = Len(Manifest) - Cardinality(FetchFailed)

\* C1 witness: an install that settled with 0 < K < N failed fetches
C1_Witness ==
    /\ installPromise = "fulfilled"
    /\ FetchFailed # {}
    /\ FetchSucceeded # {}
    /\ Cardinality(FetchFailed) < Len(Manifest)

\* C3: however often the install event is delivered, no manifest identifier
\* is fetched more than once, and from the moment the fetch set has been
\* issued every identifier has been fetched exactly once.
C3_FetchSetOnce ==
    /\ \A i \in ManifestIdx : fetchCount[i] <= 1
    /\ (installPc = "fetching" \/ installOutcome = "complete") =>
          \A i \in ManifestIdx : fetchCount[i] = 1

\* C3 witness: the event was delivered twice and the install completed
C3_Witness ==
    /\ installEvents >= 2
    /\ installOutcome = "complete"
    /\ \A i \in ManifestIdx : fetchCount[i] = 1

\* C11: under fairness (every caches.open, fetch and cache.put settles), a
\* started install leads to the install promise being settled with
\* skipWaiting called, whether caches.open failed or any subset of the
\* manifest fetches did; the install never stays pending.
C11_InstallEventuallyReady ==
    (installPromise = "pending") ~>
        (installPromise = "fulfilled" /\ skipWaitingCalls >= 1 /\ phase = "installed")

\* C11 witness: the install has signalled ready although caches.open failed
C11_Witness ==
    /\ installOutcome = "failed"
    /\ installPromise = "fulfilled"
    /\ skipWaitingCalls = 1
    /\ Stored(caches, CACHE_NAME) = {}

(***************************************************************************)
(* Activation: claims                                                      *)
(***************************************************************************)
CountType(box, t) == Cardinality({i \in 1..Len(box) : box[i].type = t})
BaseNames(st) == {n \in CachesKeys(st) : StartsWith(n, CACHE_BASE_NAME)}
Superseded(st) == {n \in CachesKeys(st) : StartsWith(n, CACHE_BASE_NAME) /\ n # CACHE_NAME}
ActivatedSent == \E c \in ClientIds : CountType(inbox[c], "SW_ACTIVATED") > 0

\* C2 as stated: in every state after the activate handler has completed,
\* the stored cache names that start with the base name are exactly
\* {CACHE_NAME}.
C2_ExactlyCurrentAfterActivate ==
    phase = "activated" => BaseNames(caches) = {CACHE_NAME}

\* C2 amended: in every state after the activate handler has completed,
\* under any interleaving with fetch handling and update checks, a stored
\* cache name that starts with the base name is either the current
\* CACHE_NAME or a superseded name whose deletion was rejected, or is still
\* pending after another deletion was rejected; if no deletion was rejected
\* only CACHE_NAME can be stored.  CACHE_NAME is stored whenever the
\* install had opened it; after an install whose caches.open failed it is
\* stored only once a later handler has opened it.
C2_AtMostCurrentAfterActivate ==
    phase = "activated" =>
        /\ \A n \in BaseNames(caches) \ {CACHE_NAME} :
              /\ deletes[n] \in {"pending", "failed"}
              /\ \E m \in AllNames : deletes[m] = "failed"
        /\ activatePc = "done" => BaseNames(caches) \subseteq {CACHE_NAME}
        /\ installOutcome = "complete" => CACHE_NAME \in BaseNames(caches)

\* C2 witness: activation completed and deleted a superseded version, and
\* a request has been routed through the cache since
C2_Witness ==
    /\ activatePc = "done"
    /\ \E n \in OldNames : deletes[n] = "done"
    /\ BaseNames(caches) = {CACHE_NAME}
    /\ \E s \in Slots : reqs[s].pc = "done"

\* C9 as stated: every superseded version has been deleted before the
\* clients are claimed, the clients are claimed before SW_ACTIVATED is
\* broadcast, and each connected client is sent SW_ACTIVATED exactly once.
C9_DeleteThenClaimThenNotify ==
    /\ claimState = "done" => Superseded(caches) = {}
    /\ ActivatedSent => claimState = "done"
    /\ \A c \in ClientIds : CountType(inbox[c], "SW_ACTIVATED") <= 1

\* C9 amended: claim() is called before any deletion is started, so the
\* claim is not ordered after the deletions; SW_ACTIVATED is broadcast only
\* after every superseded version has been deleted and the clients have
\* been claimed; the broadcast sends SW_ACTIVATED, carrying the new version
\* id, once to each client connected at that moment, and no client is sent
\* it twice.
C9_NotifyAfterDeleteAndClaim ==
    /\ [](/\ (\E n \in AllNames : deletes[n] # "none") => claimState # "none"
          /\ (activatePc \in {"matchAll", "done"} \/ ActivatedSent) =>
                (claimState = "done" /\ Superseded(caches) = {})
          /\ \A c \in ClientIds :
                /\ CountType(inbox[c], "SW_ACTIVATED") <= 1
                /\ \A i \in 1..Len(inbox[c]) :
                      inbox[c][i].type = "SW_ACTIVATED" =>
                          inbox[c][i].version = CACHE_VERSION)
    /\ [][(activatePc = "matchAll" /\ activatePc' = "done") =>
            \A c \in ClientIds :
                CountType(inbox'[c], "SW_ACTIVATED")
                    = (IF clientState[c] = "open" THEN 1 ELSE 0)]_vars

\* C9 witness: the broadcast reached a connected client after a deletion
C9_Witness ==
    /\ activatePc = "done"
    /\ \E n \in OldNames : deletes[n] = "done"
    /\ \E c \in ClientIds : CountType(inbox[c], "SW_ACTIVATED") = 1

\* C10 as stated: when the deletion of a superseded version has failed and
\* the activate handler has completed, every other superseded version had
\* its deletion attempted, the clients were claimed and SW_ACTIVATED was
\* broadcast.
C10_NotifyDespiteFailedDelete ==
    (phase = "activated" /\ \E n \in AllNames : deletes[n] = "failed") =>
        /\ \A n \in AllNames : ShouldDelete(n) /\ caches[n] # NoCache => deletes[n] # "none"
        /\ claimState # "none"
        /\ activatePc = "done"

\* C10 witness: a deletion was rejected while a client was connected and
\* claimed, another superseded version was deleted, and the handler is over
C10_Witness ==
    /\ phase = "activated"
    /\ claimState = "done"
    /\ \E n \in AllNames : \E m \in AllNames :
          deletes[n] = "failed" /\ deletes[m] = "done"
    /\ \E c \in ClientIds : clientState[c] = "open"

(***************************************************************************)
(* Routing: claims                                                         *)
(***************************************************************************)
Done(s) == reqs[s].pc = "done"
Intercepted(s) == Done(s) /\ reqs[s].resp.kind # "passthrough"
\* the request went through tryNetwork and its fetch did not bring an ok answer
NetworkFailedFor(s) ==
    /\ Done(s)
    /\ reqs[s].net = 1
    /\ ~Includes(reqs[s].req.url, "sw.js")
    /\ reqs[s].netResult \in {"notok", "reject", "timeout"}

\* C4 as stated: an intercepted same-origin GET whose identifier has an
\* entry in the current cache is answered with the cached content and no
\* network fetch is issued on its behalf, page request or not.
C4_CachedMeansNoFetch ==
    \A s \in Slots :
        (Intercepted(s) /\ reqs[s].cachedAtStart) =>
            /\ reqs[s].resp.kind = "cached"
            /\ reqs[s].net = 0
            /\ ~reqs[s].refresh

\* C4 amended: an intercepted same-origin GET whose URL does not contain
\* 'sw.js' and whose identifier has an entry in the current cache is
\* answered with the content of that entry, without the router awaiting
\* any network fetch; no fetch at all is issued for a request that is not
\* a page request, and for a page request the only fetch is the
\* background refresh (which the rate limit may suppress).
C4_CachedServedWithoutWaiting ==
    /\ [](\A s \in Slots :
            (Intercepted(s) /\ reqs[s].cachedAtStart
                /\ ~Includes(reqs[s].req.url, "sw.js")) =>
                /\ reqs[s].resp.kind = "cached"
                /\ reqs[s].resp.status = 200
                /\ reqs[s].net = 0
                /\ reqs[s].refresh => isHTMLRequest(reqs[s].req))
    /\ [][\A s \in Slots :
            (reqs[s].pc = "match" /\ reqs[s].cachedAtStart /\ reqs'[s].pc = "done") =>
                reqs'[s].resp.body = CacheMatch(caches, CACHE_NAME, reqs[s].req.url)]_vars

\* C4 witness: a cached page served from the cache, with its refresh started
C4_Witness ==
    \E s \in Slots :
        /\ Intercepted(s) /\ reqs[s].cachedAtStart
        /\ reqs[s].resp.kind = "cached"
        /\ reqs[s].net = 0
        /\ reqs[s].refresh

\* C5: a page request that reached the network attempt (no cached entry,
\* no fallback hit) and whose fetch rejected, timed out or answered with a
\* non-ok status is answered with the offline placeholder: status 200, an
\* HTML content type, and nothing is thrown.
C5_OfflinePlaceholderForPages ==
    \A s \in Slots :
        (NetworkFailedFor(s) /\ isHTMLRequest(reqs[s].req)) =>
            /\ reqs[s].resp.kind = "offline"
            /\ reqs[s].resp.status = 200
            /\ Includes(reqs[s].resp.ctype, "text/html")
            /\ ~reqs[s].thrown

\* C5 witness: an uncached page whose fetch was aborted by the timeout
C5_Witness ==
    \E s \in Slots :
        /\ NetworkFailedFor(s) /\ isHTMLRequest(reqs[s].req)
        /\ reqs[s].netResult = "timeout"
        /\ ~reqs[s].cachedAtStart
        /\ reqs[s].resp = createOfflineResponse

\* C6 as stated: for a request that is no page request, a failed network
\* attempt makes handleRequest end in the failure itself: the promise
\* given to respondWith is rejected, no response is substituted.
C6_FailurePropagatesToCaller ==
    \A s \in Slots :
        (NetworkFailedFor(s) /\ ~isHTMLRequest(reqs[s].req)) =>
            reqs[s].resp.kind = "rejected"

\* C6 amended: for a request that is no page request, a failed network
\* attempt makes tryNetwork throw (no offline placeholder); handleRequest
\* catches the failure and returns the generic error response, status 500.
C6_FailureBecomesErrorResponse ==
    \A s \in Slots :
        (NetworkFailedFor(s) /\ ~isHTMLRequest(reqs[s].req)) =>
            /\ reqs[s].thrown
            /\ reqs[s].resp.kind = "error"
            /\ reqs[s].resp.status = 500

\* C6 witness: an uncached stylesheet whose fetch was rejected
C6_Witness ==
    \E s \in Slots :
        /\ NetworkFailedFor(s) /\ ~isHTMLRequest(reqs[s].req)
        /\ reqs[s].netResult = "reject"
        /\ reqs[s].resp = createErrorResponse

CheckMsgs(box, i, t) ==
    {j \in 1..Len(box) : box[j].from = "check" /\ box[j].check = i /\ box[j].type = t}

\* run i is over, and from the moment it took its client list no build was
\* deployed and every critical identifier was cached with the live content
UnchangedCheck(i) ==
    /\ checks[i].pc = "done"
    /\ checks[i].sameAtStart
    /\ checks[i].deploysAtStart = deploys

\* C8 as stated: when an update check ends and the live content of every
\* critical identifier equalled the cached content throughout, each client
\* connected at that moment has received from that check exactly one
\* NO_UPDATES message with a timestamp and no UPDATE_AVAILABLE message.
C8_EveryConnectedClientToldNoUpdates ==
    [][\A i \in CheckIds :
         (/\ checks[i].pc # "done" /\ checks'[i].pc = "done"
          /\ checks[i].sameAtStart /\ checks[i].deploysAtStart = deploys) =>
             \A c \in ClientIds :
                 clientState[c] = "open" =>
                     /\ CheckMsgs(inbox'[c], i, "UPDATE_AVAILABLE") = {}
                     /\ Cardinality(CheckMsgs(inbox'[c], i, "NO_UPDATES")) = 1
                     /\ \A j \in CheckMsgs(inbox'[c], i, "NO_UPDATES") :
                           inbox'[c][j].timestamp > 0]_vars

\* C8, for the clients of the list taken when the check started: when an
\* update check ran while the live content of every critical identifier
\* equalled the cached content, every client of that list that is still
\* connected has received exactly one NO_UPDATES message with a timestamp
\* from that check, and no client has received an UPDATE_AVAILABLE message
\* from it.
C8_UnchangedCheckSaysNoUpdates ==
    \A i \in CheckIds :
        UnchangedCheck(i) =>
            /\ ~checks[i].hasUpdates
            /\ \A c \in ClientIds :
                  /\ CheckMsgs(inbox[c], i, "UPDATE_AVAILABLE") = {}
                  /\ Cardinality(CheckMsgs(inbox[c], i, "NO_UPDATES")) <= 1
                  /\ \A j \in CheckMsgs(inbox[c], i, "NO_UPDATES") :
                        inbox[c][j].timestamp > 0
            /\ \A c \in checks[i].clients :
                  clientState[c] = "open" =>
                      Cardinality(CheckMsgs(inbox[c], i, "NO_UPDATES")) = 1

\* C8 witness: an unchanged check has told a connected client NO_UPDATES
C8_Witness ==
    \E i \in CheckIds : \E c \in ClientIds :
        /\ UnchangedCheck(i)
        /\ c \in checks[i].clients
        /\ clientState[c] = "open"
        /\ CheckMsgs(inbox[c], i, "NO_UPDATES") # {}

(***************************************************************************)
(* Routing under storage faults: claims                                    *)
(***************************************************************************)
\* something was rejected or thrown on behalf of the request of slot s
FailureArose(s) ==
    reqs[s].thrown \/ reqs[s].netResult \in {"notok", "reject", "timeout"}

C13_StoredBeforeReturned ==
    [][\A s \in Slots :
         (/\ reqs[s].pc = "net" /\ reqs'[s].pc = "done"
          /\ reqs'[s].netResult = "ok") =>
             CacheMatch(caches', CACHE_NAME, reqs[s].req.url) = reqs'[s].resp.body]_vars

\* C13 witness: the network response has been returned while its put is
\* still pending and the cache has no entry for the identifier
C13_Witness ==
    \E s \in Slots :
        /\ Done(s) /\ reqs[s].net = 1 /\ reqs[s].netResult = "ok"
        /\ reqs[s].resp.kind = "network"
        /\ \E p \in pendingPuts : p.key = reqs[s].req.url
        /\ CacheMatch(caches, CACHE_NAME, reqs[s].req.url) = Absent

\* C14: a same-origin GET for the worker's own script ('./sw.js') is
\* answered from the network only: it never enters the cache lookup, its
\* answer is the fetched response (or the rejection of the fetch) although
\* the install stored './sw.js' in the cache, and settling it writes
\* nothing to the cache.
C14_OwnScriptNetworkOnly ==
    /\ [](\A s \in Slots :
            (reqs[s].req.url = Resolve("./sw.js") /\ reqs[s].req.method = "GET") =>
                /\ reqs[s].pc \in {"sw", "done"}
                /\ reqs[s].net = 1
                /\ ~reqs[s].refresh
                /\ Done(s) => reqs[s].resp.kind \in {"network", "rejected"})
    /\ [][\A s \in Slots :
            (reqs[s].pc = "sw" /\ reqs'[s].pc = "done") =>
                (caches' = caches /\ pendingPuts' = pendingPuts)]_vars

\* C14 witness: the script was fetched from the network while the cache
\* held an entry for it
C14_Witness ==
    \E s \in Slots :
        /\ Done(s) /\ reqs[s].req = ReqSw
        /\ reqs[s].cachedAtStart
        /\ reqs[s].resp.kind = "network" /\ reqs[s].resp.status = 200

(***************************************************************************)
(* Update check: events of one run                                         *)
(***************************************************************************)
\* the positions in a box of the terminal events of run i
TerminalMsgs(box, i) ==
    {j \in 1..Len(box) :
        /\ box[j].from = "check" /\ box[j].check = i
        /\ box[j].type \in {"UPDATE_AVAILABLE", "NO_UPDATES", "UPDATE_CHECK_FAILED"}}

\* C15 as stated: a check sends each connected client UPDATE_CHECK_STARTED
\* first and then exactly one terminal event: every client connected when
\* the list of l.393 is taken is sent the start event, every client
\* connected when the check ends has then received exactly one terminal
\* event of that check (with its timestamp), and in no inbox does a
\* terminal event of a check precede its start event.
C15_StartThenOneTerminalEvent ==
    [][\A i \in CheckIds : \A c \in ClientIds :
         /\ (checks[i].pc = "matchAll" /\ checks'[i].pc # "matchAll"
                 /\ clientState[c] = "open") =>
                Cardinality(CheckMsgs(inbox'[c], i, "UPDATE_CHECK_STARTED")) = 1
         /\ (checks[i].pc # "done" /\ checks'[i].pc = "done"
                 /\ clientState[c] = "open") =>
                /\ Cardinality(TerminalMsgs(inbox'[c], i)) = 1
                /\ \A j \in TerminalMsgs(inbox'[c], i) : inbox'[c][j].timestamp > 0
         /\ \A j \in TerminalMsgs(inbox'[c], i) :
                \E k \in CheckMsgs(inbox'[c], i, "UPDATE_CHECK_STARTED") : k < j]_vars

\* C15, for the clients of the list taken at l.393: each of them has the
\* start event of the check, each of them that is still connected when the
\* check is over has exactly one terminal event of it, after the start
\* event, and no other client has any event of the check.
C15_ListedClientsStartThenTerminal ==
    \A i \in CheckIds : \A c \in ClientIds :
        /\ Cardinality(CheckMsgs(inbox[c], i, "UPDATE_CHECK_STARTED"))
              = (IF c \in checks[i].clients THEN 1 ELSE 0)
        /\ Cardinality(TerminalMsgs(inbox[c], i)) <= 1
        /\ \A j \in TerminalMsgs(inbox[c], i) :
              /\ c \in checks[i].clients
              /\ \E k \in CheckMsgs(inbox[c], i, "UPDATE_CHECK_STARTED") : k < j
        /\ (checks[i].pc = "done" /\ c \in checks[i].clients /\ clientState[c] = "open") =>
              Cardinality(TerminalMsgs(inbox[c], i)) = 1

\* C15, termination: under fairness a started check runs to its end
C15_CheckEventuallyEnds ==
    \A i \in CheckIds : (checks[i].pc = "matchAll") ~> (checks[i].pc = "done")

\* C15 witness: a check is over, one connected client has its start event
\* and its terminal event, another connected client has neither
C15_Witness ==
    \E i \in CheckIds : \E c \in ClientIds : \E d \in ClientIds :
        /\ checks[i].pc = "done"
        /\ clientState[c] = "open" /\ clientState[d] = "open"
        /\ CheckMsgs(inbox[c], i, "UPDATE_CHECK_STARTED") # {}
        /\ TerminalMsgs(inbox[c], i) # {}
        /\ inbox[d] = <<>>

\* C16 as stated: every broadcast goes to the clients connected at the
\* moment it is sent: in a step that posts messages, the clients that are
\* sent one are exactly the connected clients; so a client that connected
\* (disconnected) during an update check is (is not) sent its final event.
C16_BroadcastToClientsConnectedNow ==
    [][inbox' # inbox =>
         \A c \in ClientIds :
             (Len(inbox'[c]) > Len(inbox[c])) = (clientState[c] = "open")]_vars

\* C16 witness: a check has sent its final event to a client of the list
\* taken at its start, while a client that connected during the check, and
\* is still connected, was sent nothing
C16_Witness ==
    \E i \in CheckIds : \E c \in ClientIds : \E d \in ClientIds :
        /\ checks[i].pc = "done"
        /\ c \in checks[i].clients /\ TerminalMsgs(inbox[c], i) # {}
        /\ d \notin checks[i].clients /\ clientState[d] = "open"
        /\ TerminalMsgs(inbox[d], i) = {}

\* C19: a failure fetching or comparing one critical identifier does not
\* abort the check: the step that passes an identifier over goes on to the
\* next identifier of urlsToCheck, or after the last one ends the check with
\* UPDATE_AVAILABLE or NO_UPDATES to the connected clients of its list; a
\* check that is over has gone through all identifiers, and no check ever
\* sends UPDATE_CHECK_FAILED.
C19_FailureDoesNotAbort ==
    /\ [](\A i \in CheckIds :
            /\ checks[i].pc = "done" => checks[i].idx = Len(urlsToCheck)
            /\ checks[i].skipped \subseteq 1..checks[i].idx
            /\ \A c \in ClientIds : CheckMsgs(inbox[c], i, "UPDATE_CHECK_FAILED") = {})
    /\ [][\A i \in CheckIds :
            checks'[i].skipped # checks[i].skipped =>
                IF checks[i].idx < Len(urlsToCheck)
                THEN /\ checks'[i].pc = "fetch"
                     /\ checks'[i].idx = checks[i].idx + 1
                ELSE /\ checks'[i].pc = "done"
                     /\ \A c \in checks[i].clients :
                           clientState[c] = "open" =>
                               /\ Len(inbox'[c]) = Len(inbox[c]) + 1
                               /\ inbox'[c][Len(inbox'[c])].check = i
                               /\ inbox'[c][Len(inbox'[c])].type \in
                                      {"UPDATE_AVAILABLE", "NO_UPDATES"}]_vars

\* C19 witness: a check is over whose first identifier was passed over
\* after a failure, a later identifier was compared and found changed, and
\* a connected client of its list was sent UPDATE_AVAILABLE
C19_Witness ==
    \E i \in CheckIds : \E c \in ClientIds :
        /\ checks[i].pc = "done"
        /\ 1 \in checks[i].skipped
        /\ checks[i].hasUpdates
        /\ c \in checks[i].clients /\ clientState[c] = "open"
        /\ CheckMsgs(inbox[c], i, "UPDATE_AVAILABLE") # {}

(***************************************************************************)
(* Cache lookup: claims                                                    *)
(***************************************************************************)
\* the fallback identifiers in the order the claim fixes
FallbackKeys == <<Resolve("./"), Resolve("./index.html"), Resolve("/")>>

\* C20: the cache lookup returns the exact-match entry if one exists;
\* otherwise, only for a page request, it tries './', './index.html', '/'
\* in this order and returns the first hit; for a request that is no page
\* request and has no exact match it returns absent and no fallback
\* identifier is consulted.
C20_ExactThenOrderedFallbacks ==
    [][\A s \in Slots :
         LET r == reqs[s]
             q == reqs'[s]
             exact == CacheMatch(caches', CACHE_NAME, r.req.url)
         IN  /\ (r.pc = "match" /\ q.pc # "match") =>
                    IF exact # Absent
                    THEN q.pc = "done" /\ q.resp = CachedResponse(exact)
                    ELSE IF isHTMLRequest(r.req)
                    THEN q.pc = "alt" /\ q.alt = 1
                    ELSE q.pc = "net" /\ q.alt = 0 /\ q.resp = NoResponse
             /\ (r.pc = "alt" /\ q # r) =>
                    LET hit == CacheMatch(caches, CACHE_NAME, FallbackKeys[r.alt])
                    IN  /\ isHTMLRequest(r.req)
                        /\ IF hit # Absent
                           THEN q.pc = "done" /\ q.resp = CachedResponse(hit)
                           ELSE IF r.alt < 3
                           THEN q.pc = "alt" /\ q.alt = r.alt + 1
                           ELSE q.pc = "net" /\ q.resp = NoResponse]_vars

\* C20 witness: a page request without an entry of its own was answered
\* with the entry of './' while './index.html' holds another content
C20_Witness ==
    \E s \in Slots :
        /\ Done(s) /\ reqs[s].req = ReqAbout
        /\ ~reqs[s].cachedAtStart
        /\ reqs[s].resp = CachedResponse(CacheMatch(caches, CACHE_NAME, Resolve("./")))
        /\ CacheMatch(caches, CACHE_NAME, Resolve("./index.html")) # Absent
        /\ CacheMatch(caches, CACHE_NAME, Resolve("./index.html"))
              # CacheMatch(caches, CACHE_NAME, Resolve("./"))

(***************************************************************************)
(* Interception: claims                                                    *)
(***************************************************************************)
\* the URL has the scheme, host and port of the worker
SameOrigin(url) == url = Origin \/ StartsWith(url, Origin \o "/")

\* C17 as stated: a request whose method is not GET or whose URL is not
\* same-origin is not intercepted: it is finished at once with no response,
\* never reaches the cache lookup or the network fetch that writes back, and
\* starts no background refresh.
C17_OnlySameOriginGetIntercepted ==
    \A s \in Slots :
        (reqs[s].pc # "idle"
            /\ (reqs[s].req.method # "GET" \/ ~SameOrigin(reqs[s].req.url))) =>
            /\ reqs[s].pc = "done"
            /\ reqs[s].resp = NotIntercepted
            /\ reqs[s].net = 0
            /\ ~reqs[s].refresh

\* C17 witness: a GET of another origin was answered by the handler from
\* the network and written to the cache
C17_Witness ==
    \E s \in Slots :
        /\ Done(s) /\ reqs[s].req = ReqLookalike
        /\ ~SameOrigin(reqs[s].req.url)
        /\ reqs[s].resp.kind = "network"
        /\ CacheMatch(caches, CACHE_NAME, LookalikeUrl) # Absent

(***************************************************************************)
(* Translation lookup: specification and claims                            *)
(***************************************************************************)
\* the page of an activated worker loads languages and looks keys up
SpecI18n ==
    InitRefreshSpec /\ [][NextI18n]_vars

Bracketed(key) == Str("[" \o key \o "]")

\* C18 as stated: the lookup returns '[key]' whenever the data is not ready
\* or the key is missing from the loaded data, and the stored translation
\* otherwise.
C18_BracketOrStored ==
    translated # NoCall =>
        IF ~translated.ready \/ translated.stored = NoProp
        THEN translated.result = Bracketed(translated.key)
        ELSE translated.result = translated.stored

\* what does hold: '[key]' while not ready and for a missing key that no
\* object inherits; the stored text when no variables are given
C18_BracketUnlessInherited ==
    translated # NoCall =>
        /\ ~translated.ready => translated.result = Bracketed(translated.key)
        /\ (translated.ready /\ translated.stored = NoProp
                /\ translated.key \notin ObjectPrototypeNames) =>
              translated.result = Bracketed(translated.key)
        /\ (translated.ready /\ translated.stored # NoProp
                /\ translated.vars = <<>>) =>
              translated.result = translated.stored

\* C18 witness: with the data ready, a key that the loaded data does not
\* hold was looked up and the answer was not '[key]'
C18_Witness ==
    /\ translated.ready
    /\ translated.key = "constructor"
    /\ translated.stored = NoProp
    /\ translated.result = BuiltIn("constructor")

(***************************************************************************)
(* The two update modes: claims                                            *)
(***************************************************************************)
\* the entry of key k in the current cache, Absent when there is none
Entry(st, k) == IF st[CACHE_NAME] = NoCache THEN Absent ELSE st[CACHE_NAME][k]

\* the messages of type UPDATE_AVAILABLE a refresh of url k has posted
RefreshMsgs(box, k) ==
    {j \in 1..Len(box) :
        box[j].from = "refresh" /\ box[j].type = "UPDATE_AVAILABLE" /\ box[j].url = k}

\* C21: in both update modes the entry of a checked identifier is
\* overwritten, and an update reported, only when an entry exists and the
\* fetched content differs from it: no step creates an entry, and an entry
\* changes only to the content a mode has fetched and found different; a
\* step that compares
\* marks an update exactly when the entry exists and differs; a step after
\* a failed fetch, a missing entry or an equal content leaves the cache and
\* the inboxes alone; and UPDATE_AVAILABLE is only ever sent for an
\* identifier that has an entry and of which a new build was deployed.
C21_UpdateOnlyWhenCachedAndDifferent ==
    /\ [](\A c \in ClientIds :
            /\ \A k \in Keys :
                  RefreshMsgs(inbox[c], k) # {} =>
                      Entry(caches, k) # Absent /\ live[k] > 1
            /\ \A i \in CheckIds :
                  CheckMsgs(inbox[c], i, "UPDATE_AVAILABLE") # {} =>
                      \E k \in CriticalKeys : Entry(caches, k) # Absent /\ live[k] > 1)
    /\ [][/\ \A k \in Keys :
               Entry(caches', k) # Entry(caches, k) =>
                   /\ Entry(caches, k) # Absent
                   /\ \/ \E b \in BgSlots :
                            /\ bg[b].pc = "put" /\ bg[b].url = k
                            /\ Entry(caches', k) = bg[b].new
                      \/ \E i \in CheckIds :
                            /\ checks[i].pc = "put"
                            /\ Resolve(urlsToCheck[checks[i].idx]) = k
                            /\ Entry(caches', k) = checks[i].new
          /\ \A b \in BgSlots :
               /\ (bg[b].pc = "fetch" /\ bg'[b].pc = "done") =>
                      caches' = caches /\ inbox' = inbox
               /\ (bg[b].pc = "match" /\ bg'[b].pc # "match") =>
                      /\ caches' = caches /\ inbox' = inbox
                      /\ (bg'[b].pc = "put") =
                            (Entry(caches, bg[b].url) # Absent
                                /\ Entry(caches, bg[b].url) # bg[b].new)
          /\ \A i \in CheckIds :
               /\ checks'[i].skipped # checks[i].skipped =>
                      /\ caches' = caches
                      /\ checks'[i].hasUpdates = checks[i].hasUpdates
               /\ (checks[i].pc = "match" /\ checks'[i].pc # "match"
                      /\ checks'[i].skipped = checks[i].skipped) =>
                      LET k == Resolve(urlsToCheck[checks[i].idx])
                          differs == Entry(caches, k) # Absent
                                        /\ Entry(caches, k) # checks[i].new
                      IN  /\ caches' = caches
                          /\ (checks'[i].pc = "put") = differs
                          /\ checks'[i].hasUpdates = (checks[i].hasUpdates \/ differs)]_vars

\* C21 witness: a check has overwritten the changed entry of one identifier
\* and reported the update, while another identifier with a new build but
\* no entry was left without one
C21_Witness ==
    \E i \in CheckIds : \E c \in ClientIds :
        /\ checks[i].pc = "done"
        /\ CheckMsgs(inbox[c], i, "UPDATE_AVAILABLE") # {}
        /\ Entry(caches, Resolve("./index.html")) = 2
        /\ live[Resolve("./")] = 1
        /\ Entry(caches, Resolve("./")) = Absent
        /\ \E b \in BgSlots : bg[b].pc = "done" /\ bg[b].url = Resolve("./")

(***************************************************************************)
(* Activation, frame: claims                                               *)
(***************************************************************************)
\* C22 as stated: after activation the stored caches whose name starts
\* with the base name and differs from CACHE_NAME are all deleted, and the
\* caches of other names and the current cache exist with their contents.
C22_DeletesExactlySuperseded ==
    phase = "activated" =>
        /\ \A n \in AllNames \ {CACHE_NAME} :
              StartsWith(n, CACHE_BASE_NAME) => caches[n] = NoCache
        /\ caches[ForeignName] = LeftoverCache
        /\ installOutcome = "complete" =>
              Stored(caches, CACHE_NAME) =
                  {Resolve(Manifest[i]) : i \in {j \in ManifestIdx : installFetch[j] = "stored"}}

\* C22 amended: activation deletes only stored caches whose name starts
\* with the base name and differs from CACHE_NAME, and calls caches.delete
\* for every one of them; a cache of another name and the current cache are
\* never changed by it.  When the handler has completed its chain all of
\* them are deleted; when a caches.delete is rejected, that cache stays,
\* and the handler ends while other deletions may still be pending.
C22_DeletesOnlySuperseded ==
    /\ [](/\ caches[ForeignName] = LeftoverCache
          /\ installOutcome = "complete" =>
                Stored(caches, CACHE_NAME) =
                    {Resolve(Manifest[i]) :
                        i \in {j \in ManifestIdx : installFetch[j] = "stored"}}
          /\ keysState = "resolved" =>
                \A n \in AllNames \ {CACHE_NAME} :
                    StartsWith(n, CACHE_BASE_NAME) =>
                        \/ caches[n] = NoCache
                        \/ deletes[n] \in {"pending", "failed"}
          /\ activatePc = "done" => Superseded(caches) = {}
          /\ (phase = "activated" /\ Superseded(caches) # {}) =>
                \E m \in AllNames : deletes[m] = "failed")
    /\ [][\A n \in AllNames :
            caches'[n] # caches[n] =>
                /\ StartsWith(n, CACHE_BASE_NAME) /\ n # CACHE_NAME
                /\ caches[n] # NoCache /\ caches'[n] = NoCache]_vars

\* C22 witness: activation is over, an old version and the cache that only
\* shares the prefix are deleted, the deletion of another old version was
\* rejected and it is still stored, as are the foreign and the current cache
C22_Witness ==
    /\ phase = "activated"
    /\ caches[SiblingName] = NoCache
    /\ \E n \in OldNames : \E m \in OldNames :
          /\ deletes[n] = "done" /\ caches[n] = NoCache
          /\ deletes[m] = "failed" /\ caches[m] # NoCache
    /\ caches[ForeignName] = LeftoverCache
    /\ caches[CACHE_NAME] # NoCache

(***************************************************************************)
(* Install, diagnostic counts: claims                                      *)
(***************************************************************************)
\* C23 as stated: when install completes, the success count equals the
\* number of manifest identifiers stored (N-K) and the failure count equals
\* the number of manifest identifiers whose fetch failed (K).
C23_CountsReflectOutcome ==
    installOutcome = "complete" =>
        /\ successful = Cardinality(Stored(caches, CACHE_NAME))
        /\ successful = Len(Manifest) - Cardinality(FetchFailed)
        /\ failed = Cardinality(FetchFailed)

\* what the counts are: every per-entry chain is fulfilled, so the success
\* count is N and the failure count is 0 whatever was stored
C23_CountsAreAlwaysAllAndNone ==
    installOutcome = "complete" =>
        successful = Len(Manifest) /\ failed = 0

\* C23 witness: an install completed with K > 0 failed fetches and recorded
\* N successes and no failure
C23_Witness ==
    /\ installOutcome = "complete"
    /\ Cardinality(FetchFailed) > 0
    /\ Cardinality(Stored(caches, CACHE_NAME)) < Len(Manifest)
    /\ successful = Len(Manifest)
    /\ failed = 0

(***************************************************************************)
(* What is stored: claims                                                  *)
(***************************************************************************)
\* the contents the server has answered with an ok status for identifier k
OkContents(k) == 1..live[k]

\* C24: every entry written to the cache by install, by the network
\* fallback or by either update mode comes from a response with an ok
\* status: every entry, every put in flight and every content a refresh or
\* a check is about to put is a content served with an ok status for that
\* identifier, and a step in which a fetch fails (install, tryNetwork with
\* its offline placeholder or its 500 response, a refresh, a check) neither
\* changes the cache nor starts a put.
C24_OnlyOkResponsesStored ==
    /\ [](/\ \A k \in Keys :
                Entry(caches, k) # Absent => Entry(caches, k) \in OkContents(k)
          /\ \A p \in pendingPuts : p.content \in OkContents(p.key)
          /\ \A b \in BgSlots :
                bg[b].pc = "put" => bg[b].new \in OkContents(bg[b].url)
          /\ \A i \in CheckIds :
                checks[i].pc = "put" =>
                    checks[i].new \in OkContents(Resolve(urlsToCheck[checks[i].idx])))
    /\ [][/\ \A i \in ManifestIdx :
               (installFetch[i] # "skipped" /\ installFetch'[i] = "skipped") =>
                   caches' = caches
          /\ \A s \in Slots :
               (reqs[s].pc = "net" /\ reqs'[s].pc = "done"
                    /\ reqs'[s].resp.kind # "network") =>
                   caches' = caches /\ pendingPuts' = pendingPuts
          /\ \A s \in Slots :
               (reqs[s].pc = "net" /\ reqs'[s].pc = "done"
                    /\ reqs'[s].resp.kind = "network") =>
                   /\ reqs'[s].resp.status = 200
                   /\ [key |-> reqs[s].req.url, content |-> reqs'[s].resp.body]
                         \in pendingPuts'
          /\ \A b \in BgSlots :
               (bg[b].pc = "fetch" /\ bg'[b].pc = "done") => caches' = caches
          /\ \A i \in CheckIds :
               checks'[i].skipped # checks[i].skipped => caches' = caches]_vars

\* C24 witness: after an install with a failed fetch, a page request was
\* answered with the offline placeholder and nothing was or will be stored
\* for it, while the identifiers fetched by the install are stored
C24_Witness ==
    \E s \in Slots :
        /\ installOutcome = "complete"
        /\ FetchFailed # {}
        /\ Done(s) /\ reqs[s].resp.kind = "offline"
        /\ Entry(caches, reqs[s].req.url) = Absent
        /\ pendingPuts = {}
        /\ Stored(caches, CACHE_NAME) # {}

(***************************************************************************)
(* The refresh window: claims                                              *)
(***************************************************************************)
\* a page request is answered from the cache in this step
ServedPage(s) ==
    /\ reqs[s].pc \in {"match", "alt"} /\ reqs'[s].pc = "done"
    /\ reqs'[s].resp.kind = "cached"
    /\ isHTMLRequest(reqs[s].req)

\* C25: the timestamp of the rate limit is set when a refresh is started,
\* before its fetch settles, and nothing else sets it: while the fetch of
\* the latest refresh is pending the timestamp is its start time; no step
\* in which a refresh settles (failed, no change, or updated) changes the
\* timestamp; and a page request answered from the cache, whatever its
\* identifier, starts a refresh exactly when no refresh was started before
\* or 30 seconds have passed since the last start.
C25_StartedRefreshConsumesWindow ==
    /\ [](/\ bgCount > 0 =>
                /\ lastBackgroundUpdate = bgStarts[2]
                /\ lastBackgroundUpdate > 0
                /\ lastBackgroundUpdate <= DateNow
          /\ bgCount = 0 => lastBackgroundUpdate = 0)
    /\ [][/\ lastBackgroundUpdate' # lastBackgroundUpdate =>
               /\ bgCount' = bgCount + 1
               /\ lastBackgroundUpdate' = DateNow
               /\ bg'[bgCount'].pc = "fetch"
               /\ \E s \in Slots : ServedPage(s) /\ bg'[bgCount'].url = reqs[s].req.url
          /\ \A s \in Slots :
               ServedPage(s) =>
                   IF bgCount > 0 /\ DateNow - lastBackgroundUpdate < 30000
                   THEN /\ bgCount' = bgCount /\ bg' = bg
                        /\ lastBackgroundUpdate' = lastBackgroundUpdate
                        /\ ~reqs'[s].refresh
                   ELSE /\ bgCount' = bgCount + 1
                        /\ reqs'[s].refresh]_vars

\* C25 witness: the only refresh, of './', has ended without an update
\* (its fetch failed or found no change); 15 seconds after its start a page
\* request for another identifier was answered from the cache and started
\* no refresh
C25_Witness ==
    \E s \in Slots :
        /\ bgCount = 1
        /\ bg[1].pc = "done" /\ bg[1].url = Resolve("./")
        /\ \A c \in ClientIds : inbox[c] = <<>>
        /\ DateNow - lastBackgroundUpdate = 15000
        /\ Done(s) /\ reqs[s].req = ReqAbout
        /\ reqs[s].resp.kind = "cached"
        /\ ~reqs[s].refresh

====
